---- MODULE Spec2Model ----
(***************************************************************************)
(* A model of the GStreamer study programs (rust/src/chapter-N).  Each     *)
(* chapter is a controller around the pipeline engine; the controllers and *)
(* their callbacks are translated from the sources, the engine they drive  *)
(* (bus, state machine, tee, appsrc queue) is modelled as far as the       *)
(* controllers observe it.                                                  *)
(*                                                                         *)
(* Chapter 8 (push source with need-data / enough-data back pressure) is   *)
(* Spec8; SpecTs is the same program on the schedule where the appsrc      *)
(* queue is never drained, followed for MaxTsBuffers buffers.              *)
(***************************************************************************)
EXTENDS Integers, Sequences, FiniteSets, TLC

None == {}          \* Option::None; Some(x) is {x}
Some(x) == {x}

(***************************************************************************)
(* Bounds of the model.                                                    *)
(***************************************************************************)
MaxBuffers == 4        \* buffers built in a run of Spec8
MaxTsBuffers == 1000   \* buffers built in a run of SpecTs
MaxTasks == 3          \* idle sources registered in a run
QueueMax == 2          \* appsrc max-bytes, in buffers
MaxMsgs8 == 2          \* bus messages posted in a run of chapter 8
MaxExtra == 1          \* messages other than state changes posted in a run of chapters 1-7
MaxPos == 32           \* length of the chapter 4 media, in buffer durations
MaxAdvance == 1        \* playback between two position queries, in buffer durations
MaxKeyUnit == 4        \* largest distance between key units, in buffer durations
MaxTeeBuffers == 3     \* buffers the source hands to the tee
MaxPads == 3           \* pads uridecodebin adds in a run of chapter 3
MaxRate == 2           \* sample rates a raw audio template admits
MaxStructs == 3        \* structures in the two operands of an intersection together
MaxDelivered == 1      \* buffers delivered to the sink of chapter 6

(***************************************************************************)
(* Program constants of chapter 8.                                         *)
(***************************************************************************)
CHUNK_SIZE == 1024
SAMPLE_RATE == 44100
SECOND == 1000000000
BytesPerSample == 2

VARIABLES
    \* ---- chapter 8: CustomData behind Arc<Mutex<..>>
    source_id,     \* Option<SourceId>: None or Some(id returned by idle_add)
    num_samples,   \* u64 sample counter
    wave,          \* number of update rounds applied to the accumulators a, b, c, d
    dataAlive,     \* the Arc<Mutex<CustomData>> has a strong owner
    mutex,         \* owner of the Mutex: "free", "main" or "stream"
    \* ---- chapter 8: glib main context and main()
    idle,          \* idle sources attached to the default main context
    nextId,        \* next SourceId idle_add hands out
    cur,           \* idle source whose closure the main loop is running, or None
    stage,         \* position inside that closure
    buf,           \* buffer built by the running closure: [pts, duration] or None
    pushOk,        \* result of push_buffer of the running closure
    pcMain,        \* position of main()
    bus8,          \* messages pending on the pipeline bus
    posted8,       \* messages posted so far
    \* ---- chapter 8: appsrc
    queued,        \* buffers in the appsrc queue
    pcStream,      \* position of the appsrc streaming thread
    \* ---- chapter 8: history
    nbuilt,        \* buffers built by the production task
    npushed,       \* buffers handed to push_buffer successfully
    lastPts,       \* pts of the last such buffer, or None
    stopped,       \* enough_data was delivered and no need_data since
    lastNeed,      \* outcome of the last need_data callback
    \* ---- chapters 1, 3, 4, 6, 7: the pipeline as the controller sees it
    chapter,       \* which tutorial_main runs
    pcCtl,         \* position of tutorial_main
    target,        \* state last requested with set_state
    gstate,        \* state of the pipeline
    elemState,     \* state of each element
    failed,        \* an element has failed its state change
    bus,           \* messages pending on the bus, oldest first
    nextra,        \* messages other than state changes posted so far
    \* ---- chapters 1, 3, 4, 6, 7: history
    postedLog,     \* every message posted, in order
    poppedLog,     \* every message the controller took off the bus, in order
    observed,      \* pipeline state changes printed by the controller
    \* ---- chapter 4: CustomData
    playing,       \* are we in the PLAYING state?
    terminate,     \* should we terminate execution?
    seek_enabled,  \* is seeking enabled for this media?
    seek_done,     \* have we performed the seek already?
    duration,      \* Option<ClockTime>
    \* ---- chapter 4: the media playbin plays; time is counted in buffer
    \* durations, and the model lets a buffer last one second
    position,      \* play cursor
    posKnown,      \* a position query has succeeded
    \* (what the media fixes is drawn when the engine first consults it)
    keyUnit,       \* distance between key units of the media, or None
    seekable,      \* the media supports seeking, or None
    \* ---- chapter 4: history
    seekHist,      \* the seek issued: [queried, known, result, landed], or None
    seekProgress,  \* playback since the seek
    afterSeek,     \* first position query after the seek: [q, progress], or None
    \* ---- the tee of chapters 7 and 8
    teeCfg,        \* which program wires the tee
    pcTee,         \* controller: "request", "link", "run"
    teeState,      \* state of the pipeline holding the tee
    teePads,       \* request pads obtained so far, in order
    teeLink,       \* request pad -> the queue its peer sink pad belongs to
    teeIn,         \* number of buffers received on the tee's sink pad
    teePending,    \* request pads the current buffer is still to be pushed on
    recv,          \* queue -> buffers received, in order
    teeNeg,        \* request pad -> the capability negotiated on its link
    teeErr,        \* misuse conditions the tee has flagged
    \* ---- chapter 3: the pads uridecodebin adds and convert's sink pad
    padCaps,       \* caps of the pads added so far, in order of appearance
    padStage,      \* per pad, where its pad-added handler is: "link", "done"
    sawLinked,     \* per pad, what sink_pad.is_linked() returned to its handler
    sinkPeers,     \* pads linked to convert's sink pad
    attempts,      \* src_pad.link(&sink_pad) calls made: [pad, result, linked]
    \* ---- chapter 8: the appsink branch
    inApp,         \* buffers on their way from the tee to the appsink
    sinkQ,         \* completed samples the appsink holds, not yet pulled
    pcSink,        \* new_sample callback: "idle", "notify", "lock", "pull"
    notified,      \* new_sample notifications made
    pulls,         \* pull_sample calls that returned a sample
    pullFail,      \* pull_sample calls that found no sample
    skipped,       \* notifications that returned without a pull
    \* ---- the bus of the running program
    mech,          \* delivery mechanisms the controller has used on its bus
    taken8,        \* chapter 8: kinds of the messages the signal watch took
    handled8,      \* chapter 8: handler arms run, in order
    \* ---- capabilities: the intersection of two of them
    capA,          \* first operand
    capB,          \* second operand
    capOut,        \* None, or the results of the intersections computed
    \* ---- chapter 6: the sink pad of the sink element
    sinkTemplate,  \* the pad's template
    sinkCur,       \* None, or the capability negotiated on the pad
    delivered6,    \* buffers the sink has received
    printed        \* print_pad_capabilities calls: what was shown, and when

vars8 == <<source_id, num_samples, wave, dataAlive, mutex, idle, nextId, cur,
           stage, buf, pushOk, pcMain, bus8, posted8, queued, pcStream,
           nbuilt, npushed, lastPts, stopped, lastNeed>>

varsCtl == <<chapter, pcCtl, target, gstate, elemState, failed, bus, nextra,
             postedLog, poppedLog, observed>>

vars4 == <<playing, terminate, seek_enabled, seek_done, duration, position,
           posKnown, keyUnit, seekable, seekHist, seekProgress, afterSeek>>

varsTee == <<teeCfg, pcTee, teeState, teePads, teeLink, teeIn, teePending, recv,
             teeNeg, teeErr>>

varsPad == <<padCaps, padStage, sawLinked, sinkPeers, attempts>>

varsSink == <<inApp, sinkQ, pcSink, notified, pulls, pullFail, skipped>>

varsMech == <<mech, taken8, handled8>>

varsCaps == <<capA, capB, capOut, sinkTemplate, sinkCur, delivered6, printed>>

vars == <<vars8, varsSink, varsCtl, vars4, varsTee, varsPad, varsMech, varsCaps>>

(***************************************************************************)
(* ClockTime.  A ClockTime is a u64 count of nanoseconds; the model keeps  *)
(* it as <<seconds, nanoseconds>> with nanoseconds < SECOND.               *)
(***************************************************************************)
RECURSIVE LongDiv(_, _, _, _)
\* floor(rem * 10^digits / denom) for rem < denom, by decimal long division
LongDiv(rem, q, denom, digits) ==
    IF digits = 0 THEN q
    ELSE LongDiv((rem * 10) % denom, q * 10 + (rem * 10) \div denom, denom, digits - 1)

\* gst::ClockTime::SECOND.mul_div_floor(num, denom) = floor(10^9 * num / denom)
SecondMulDivFloor(num, denom) ==
    <<num \div denom, LongDiv(num % denom, 0, denom, 9)>>

TimeLeq(s, t) == s[1] < t[1] \/ (s[1] = t[1] /\ s[2] <= t[2])

\* let num_samples = CHUNK_SIZE / 2
SamplesPerBuffer == CHUNK_SIZE \div BytesPerSample

PtsAfterCount(n) == SecondMulDivFloor(n + SamplesPerBuffer, SAMPLE_RATE)
\* let pts = SECOND.mul_div_floor(data.num_samples, SAMPLE_RATE)
BufferPts(n) == SecondMulDivFloor(n, SAMPLE_RATE)

\* let duration = SECOND.mul_div_floor(num_samples, SAMPLE_RATE)
BufferDuration == SecondMulDivFloor(SamplesPerBuffer, SAMPLE_RATE)

(***************************************************************************)
(* Capabilities and pad links.                                             *)
(***************************************************************************)
\* a capability is a sequence of structures [name, vals], vals being the
\* values the structure's field admits; ANY matches everything and is
\* written as the one capability whose structure is the wildcard
ANY == << [name |-> "ANY", vals |-> {}] >>

CompatibleByName(s, t) == s.name = t.name
\* structures intersect when the names match and the field specs overlap
Compatible(s, t) == s.name = t.name /\ s.vals \cap t.vals # {}

IntersectKeepLeft(a, b) ==
    IF a = ANY THEN b
    ELSE IF b = ANY THEN a
    ELSE LET pairs == [k \in 1..(Len(a) * Len(b)) |->
                          <<a[((k - 1) \div Len(b)) + 1], b[((k - 1) % Len(b)) + 1]>>]
             hits == SelectSeq(pairs, LAMBDA pr : Compatible(pr[1], pr[2]))
         IN  [k \in 1..Len(hits) |-> hits[k][1]]
\* pairwise structure intersections, in order
Intersect(a, b) ==
    IF a = ANY THEN b
    ELSE IF b = ANY THEN a
    ELSE LET pairs == [k \in 1..(Len(a) * Len(b)) |->
                          <<a[((k - 1) \div Len(b)) + 1], b[((k - 1) % Len(b)) + 1]>>]
             hits == SelectSeq(pairs, LAMBDA pr : Compatible(pr[1], pr[2]))
         IN  [k \in 1..Len(hits) |->
                 [name |-> hits[k][1].name,
                  vals |-> hits[k][1].vals \cap hits[k][2].vals]]

IsEmpty(c) == c = <<>>

\* link(src_pad, sink_pad): neither pad may be linked already, and the
\* template capabilities must intersect
PadLink(srcCaps, sinkCaps, srcLinked, sinkLinked) ==
    IF srcLinked \/ sinkLinked THEN "WasLinked"
    ELSE IF IsEmpty(Intersect(srcCaps, sinkCaps)) THEN "LinkIncompatible"
    ELSE "Ok"


IsAny(c) == c = ANY

\* field values are numbered in the order a template lists them, so the
\* lower bound of a range and the first element of a set are both the least
Lowest(vals) == CHOOSE v \in vals : \A w \in vals : v <= w

\* fixate(c): the first structure, each field at its lower bound / first
\* element
Fixate(c) ==
    IF IsAny(c) \/ IsEmpty(c) THEN c
    ELSE << [name |-> c[1].name, vals |-> {Lowest(c[1].vals)}] >>

\* one structure with no ranges or sets
IsFixed(c) == ~IsAny(c) /\ Len(c) = 1 /\ Cardinality(c[1].vals) = 1

EMPTY == <<>>

\* the operands taken: capabilities of raw audio and raw video structures
\* over the rates 1..MaxRate, and ANY
CapNames == {"audio/x-raw", "video/x-raw"}
CapStructs == [name : CapNames, vals : (SUBSET (1..MaxRate)) \ {{}}]
CapsOfLen(n) == [1..n -> CapStructs]
\* capabilities of at most n structures, ANY counting as one
CapsUpTo(n) == UNION {CapsOfLen(k) : k \in 0..n} \cup {c \in {ANY} : n >= 1}

InitCaps(max, templates) ==
    /\ capA \in CapsUpTo(max)
    /\ capB \in CapsUpTo(max - Len(capA))
    /\ capOut = None
    /\ sinkTemplate \in templates
    /\ sinkCur = None
    /\ delivered6 = 0
    /\ printed = <<>>

\* intersect is applied to the operands, both ways round, and to each
\* operand with ANY and with EMPTY
CapsIntersect ==
    /\ capOut = None
    /\ capOut' = Some([ab |-> Intersect(capA, capB), ba |-> Intersect(capB, capA),
                       aAny |-> Intersect(capA, ANY), anyA |-> Intersect(ANY, capA),
                       aEmpty |-> Intersect(capA, EMPTY),
                       emptyA |-> Intersect(EMPTY, capA)])
    /\ UNCHANGED <<capA, capB, sinkTemplate, sinkCur, delivered6, printed>>
    /\ UNCHANGED <<vars8, varsSink, varsCtl, vars4, varsTee, varsPad, varsMech>>

NextCaps == CapsIntersect

(***************************************************************************)
(* The pipeline engine as chapters 1, 3, 4, 6 and 7 drive it: lifecycle    *)
(* states, elements that follow the requested state, and the bus.          *)
(***************************************************************************)
StateOrder == <<"Null", "Ready", "Paused", "Playing">>
Rank(st) == CHOOSE i \in 1..Len(StateOrder) : StateOrder[i] = st
Up(st) == StateOrder[Rank(st) + 1]

Pipeline == "pipeline"
Elems == {"source", "sink"}

Message(log, kind, src, old, new) ==
    [id |-> Len(log) + 1, kind |-> kind, src |-> src, old |-> old, new |-> new]

AssociateAlsoPop(m, how) == m \cup {how, "timed_pop"}
\* the bus notes the delivery mechanism a consumer uses on it
Associate(m, how) == m \cup {how}

\* mixing pop and callback dispatch on one bus is a usage error
DualConsumptionError(m) == Cardinality(m) > 1

BusPostFront(b, msg) == <<msg>> \o b
\* post(message): the message joins the queue behind those already pending
BusPost(b, msg) == Append(b, msg)

InitCtl(chapters) ==
    /\ chapter \in chapters
    /\ pcCtl = "start"
    /\ target = "Null"
    /\ gstate = "Null"
    /\ elemState = [e \in Elems |-> "Null"]
    /\ failed = FALSE
    /\ bus = <<>>
    /\ nextra = 0
    /\ postedLog = <<>>
    /\ poppedLog = <<>>
    /\ observed = <<>>
    /\ mech = {}
    /\ taken8 = <<>>
    /\ handled8 = <<>>

Post(msg) ==
    /\ bus' = BusPost(bus, msg)
    /\ postedLog' = Append(postedLog, msg)

\* the sink completes its change to Paused when the first buffer has reached
\* it
Prerolled(ch, e, st, n) == (ch = 6 /\ e = "sink" /\ st = "Ready") => n >= 1

\* element e follows the requested state one step and reports it
ElementUp(e) ==
    /\ ~failed
    /\ elemState[e] = gstate
    /\ Rank(gstate) < Rank(target)
    /\ Prerolled(chapter, e, gstate, delivered6)
    /\ elemState' = [elemState EXCEPT ![e] = Up(gstate)]
    /\ Post(Message(postedLog, "state-changed", e, gstate, Up(gstate)))
    /\ UNCHANGED <<chapter, pcCtl, target, gstate, failed, nextra, poppedLog,
                   observed>>
    /\ UNCHANGED <<vars8, varsSink, vars4, varsTee, varsPad, varsMech, varsCaps>>

\* every element has confirmed the step: the pipeline reports it as its own
PipelineUp ==
    /\ ~failed
    /\ Rank(gstate) < Rank(target)
    /\ \A e \in Elems : elemState[e] = Up(gstate)
    /\ gstate' = Up(gstate)
    /\ Post(Message(postedLog, "state-changed", Pipeline, gstate, Up(gstate)))
    /\ UNCHANGED <<chapter, pcCtl, target, elemState, failed, nextra, poppedLog,
                   observed>>
    /\ UNCHANGED <<vars8, varsSink, vars4, varsTee, varsPad, varsMech, varsCaps>>

\* element e posts an error while the pipeline is active
ElementError(e) ==
    /\ target # "Null"
    /\ nextra < MaxExtra
    /\ nextra' = nextra + 1
    /\ Post(Message(postedLog, "error", e, "-", "-"))
    /\ UNCHANGED <<chapter, pcCtl, target, gstate, elemState, failed, poppedLog,
                   observed>>
    /\ UNCHANGED <<vars8, varsSink, vars4, varsTee, varsPad, varsMech, varsCaps>>

\* the stream ends while playing
PostEos ==
    /\ gstate = "Playing"
    /\ nextra < MaxExtra
    /\ nextra' = nextra + 1
    /\ Post(Message(postedLog, "eos", Pipeline, "-", "-"))
    /\ UNCHANGED <<chapter, pcCtl, target, gstate, elemState, failed, poppedLog,
                   observed>>
    /\ UNCHANGED <<vars8, varsSink, vars4, varsTee, varsPad, varsMech, varsCaps>>

OtherKinds == {"async-done"}

\* any other message from an element or the pipeline
PostOther(kind, src) ==
    /\ target # "Null"
    /\ nextra < MaxExtra
    /\ nextra' = nextra + 1
    /\ Post(Message(postedLog, kind, src, "-", "-"))
    /\ UNCHANGED <<chapter, pcCtl, target, gstate, elemState, failed, poppedLog,
                   observed>>
    /\ UNCHANGED <<vars8, varsSink, vars4, varsTee, varsPad, varsMech, varsCaps>>

\* what the audio source of chapters 6, 7 and 8 can produce: raw audio at
\* a range of rates
StreamCaps == << [name |-> "audio/x-raw", vals |-> 1..MaxRate] >>

\* the capability fixed on a link when data begins to flow
Negotiate(stream, src, sink) == Fixate(Intersect(stream, Intersect(src, sink)))

(***************************************************************************)
(* Chapter 6: the sink pad's capabilities and what the program prints.     *)
(***************************************************************************)
\* templates the sink pad of the sink element may have: anything, raw audio
\* at a range of rates, or raw video and raw audio
SinkTemplates ==
    { ANY,
      << [name |-> "audio/x-raw", vals |-> 1..MaxRate] >>,
      << [name |-> "video/x-raw", vals |-> {1}],
         [name |-> "audio/x-raw", vals |-> 2..MaxRate] >> }

\* pad.query_caps(None) on a pad with no negotiated capability
QueryCaps(template) == template

QueryCapsOnly(neg, template) == QueryCaps(template)
\* pad.current_caps().unwrap_or_else(|| pad.query_caps(None))
CurrentCapability(neg, template) ==
    IF neg # None THEN CHOOSE c \in neg : TRUE ELSE QueryCaps(template)

\* print_caps: ANY, EMPTY, or each structure with its fields
PrintCaps(caps) ==
    IF IsAny(caps) THEN [any |-> TRUE, empty |-> FALSE, lines |-> <<>>]
    ELSE IF IsEmpty(caps) THEN [any |-> FALSE, empty |-> TRUE, lines |-> <<>>]
    ELSE [any |-> FALSE, empty |-> FALSE, lines |-> caps]

\* print_pad_capabilities(&sink, "sink"), called when the program has
\* announced state st; the record keeps what the pad held at that moment
PrintPadCapabilities(st, neg, template) ==
    [state |-> st, neg |-> neg, template |-> template,
     shown |-> PrintCaps(CurrentCapability(neg, template))]

CanFlowAlways(neg) == TRUE
\* data may flow on a pad once its capability is fixated
CanFlow(neg) == neg # None /\ \A c \in neg : IsFixed(c)

\* the source of chapter 6 has started and the link to the sink negotiates:
\* the capability is fixed, or stays unresolved if nothing is common
Negotiate6 ==
    /\ chapter = 6
    /\ ~failed
    /\ target = "Playing"
    /\ elemState["source"] \in {"Paused", "Playing"}
    /\ sinkCur = None
    /\ LET c == Negotiate(StreamCaps, StreamCaps, sinkTemplate)
       IN  /\ ~IsEmpty(c)
           /\ sinkCur' = Some(c)
    /\ UNCHANGED <<capA, capB, capOut, sinkTemplate, delivered6, printed>>
    /\ UNCHANGED <<vars8, varsSink, varsCtl, vars4, varsTee, varsPad, varsMech>>

\* the source pushes a buffer, which the sink receives
Deliver6 ==
    /\ chapter = 6
    /\ ~failed
    /\ target = "Playing"
    /\ elemState["source"] \in {"Paused", "Playing"}
    /\ CanFlow(sinkCur)
    /\ delivered6 < MaxDelivered
    /\ delivered6' = delivered6 + 1
    /\ UNCHANGED <<capA, capB, capOut, sinkTemplate, sinkCur, printed>>
    /\ UNCHANGED <<vars8, varsSink, varsCtl, vars4, varsTee, varsPad, varsMech>>

(***************************************************************************)
(* The controllers of chapters 1, 3, 6 and 7 (tutorial_main).              *)
(***************************************************************************)
ToleratesNoFailure(ch) == FALSE
\* chapter 6 reports a failed set_state(Playing) and goes on; the others
\* .expect() it
ToleratesFailure(ch) == ch = 6

\* chapters 3 and 6 have a StateChanged arm
PrintsStateChanges(ch) == ch \in {3, 6}

\* pipeline.set_state(gst::State::Playing); on failure the failing element has
\* posted an error.  Chapter 6 first prints the sink pad's capabilities, in
\* the Null state
CtlSetStatePlaying(ok) ==
    /\ chapter \in {1, 3, 6, 7}
    /\ pcCtl = "start"
    /\ target' = "Playing"
    /\ IF ok
       THEN /\ pcCtl' = "loop"
            /\ UNCHANGED <<failed, bus, postedLog, nextra>>
       ELSE /\ pcCtl' = IF ToleratesFailure(chapter) THEN "loop" ELSE "panic"
            /\ failed' = TRUE
            /\ nextra' = nextra + 1
            /\ \E e \in Elems : Post(Message(postedLog, "error", e, "-", "-"))
    /\ printed' = IF chapter = 6
                  THEN Append(printed, PrintPadCapabilities("Null", sinkCur, sinkTemplate))
                  ELSE printed
    /\ UNCHANGED <<chapter, gstate, elemState, poppedLog, observed>>
    /\ UNCHANGED <<capA, capB, capOut, sinkTemplate, sinkCur, delivered6>>
    /\ UNCHANGED <<vars8, varsSink, vars4, varsTee, varsPad, varsMech>>

IsTerminalErrorOnly(msg) == msg.kind = "error"
\* the arms that break out of the loop
IsTerminal(msg) == msg.kind \in {"error", "eos"}

ObserveAny(ch, msg, obs) ==
    IF PrintsStateChanges(ch) /\ msg.kind = "state-changed"
    THEN Append(obs, <<msg.old, msg.new>>)
    ELSE obs
\* the StateChanged arm: if state_changed.src() == pipeline, print old and new
Observe(ch, msg, obs) ==
    IF PrintsStateChanges(ch) /\ msg.kind = "state-changed" /\ msg.src = Pipeline
    THEN Append(obs, <<msg.old, msg.new>>)
    ELSE obs

\* one turn of `for msg in bus.iter_timed(gst::ClockTime::NONE)`: block until a
\* message is pending, take it, match on it
CtlPop ==
    /\ chapter \in {1, 3, 6, 7}
    /\ pcCtl = "loop"
    /\ bus # <<>>
    /\ bus' = Tail(bus)
    /\ poppedLog' = Append(poppedLog, Head(bus))
    /\ observed' = Observe(chapter, Head(bus), observed)
    /\ pcCtl' = IF IsTerminal(Head(bus)) THEN "after" ELSE "loop"
    /\ printed' = IF chapter = 6 /\ Observe(chapter, Head(bus), observed) # observed
                  THEN Append(printed,
                              PrintPadCapabilities(Head(bus).new, sinkCur, sinkTemplate))
                  ELSE printed
    /\ UNCHANGED <<chapter, target, gstate, elemState, failed, nextra, postedLog>>
    /\ UNCHANGED <<capA, capB, capOut, sinkTemplate, sinkCur, delivered6>>
    /\ UNCHANGED <<vars8, varsSink, vars4, varsTee, varsPad>>
    /\ mech' = Associate(mech, "iter_timed")
    /\ UNCHANGED <<taken8, handled8>>

\* pipeline.set_state(gst::State::Null); the negotiated capabilities are
\* released
CtlSetStateNull ==
    /\ chapter \in {1, 3, 6, 7}
    /\ pcCtl = "after"
    /\ pcCtl' = "done"
    /\ target' = "Null"
    /\ gstate' = "Null"
    /\ elemState' = [e \in Elems |-> "Null"]
    /\ sinkCur' = None
    /\ UNCHANGED <<chapter, failed, bus, nextra, postedLog, poppedLog, observed>>
    /\ UNCHANGED <<capA, capB, capOut, sinkTemplate, delivered6, printed>>
    /\ UNCHANGED <<vars8, varsSink, vars4, varsTee, varsPad, varsMech>>

NextBus ==
    \/ \E ok \in BOOLEAN : CtlSetStatePlaying(ok)
    \/ CtlPop
    \/ CtlSetStateNull
    \/ \E e \in Elems : ElementUp(e)
    \/ PipelineUp
    \/ \E e \in Elems : ElementError(e)
    \/ PostEos
    \/ \E kind \in OtherKinds, src \in Elems : PostOther(kind, src)
    \/ Negotiate6
    \/ Deliver6

(***************************************************************************)
(* Chapter 4: the engine's queries and seek.                               *)
(***************************************************************************)
SeekThreshold == 10
SeekTarget == 30
\* gst::SeekFlags::FLUSH | gst::SeekFlags::KEY_UNIT
SeekFlags == {"FLUSH", "KEY_UNIT"}

\* key-unit-snap: the key unit nearest to the target
KeyUnitSnap(t, ku) ==
    LET lo == (t \div ku) * ku
    IN  IF 2 * (t - lo) <= ku THEN lo ELSE lo + ku

\* where a seek to t with these flags puts the play cursor
SeekLanding(flags, t, ku) ==
    IF "KEY_UNIT" \in flags /\ "ACCURATE" \notin flags THEN KeyUnitSnap(t, ku) ELSE t

\* a seek before the first successful position query, or while not
\* Playing/Paused, or on media that cannot seek, is refused
SeekResult(st, known, canSeek) ==
    IF st \in {"Paused", "Playing"} /\ known /\ canSeek THEN "Ok" ELSE "SeekUnsupported"

\* time queries get a valid reply in the PAUSED or PLAYING state
QuerySupported(st) == st \in {"Paused", "Playing"}

Min(a, b) == IF a <= b THEN a ELSE b

Init4 ==
    /\ playing = FALSE
    /\ terminate = FALSE
    /\ seek_enabled = FALSE
    /\ seek_done = FALSE
    /\ duration = None
    /\ position = 0
    /\ posKnown = FALSE
    /\ keyUnit = None
    /\ seekable = None
    /\ seekHist = None
    /\ seekProgress = 0
    /\ afterSeek = None

(***************************************************************************)
(* Chapter 4: tutorial_main and handle_message.                            *)
(***************************************************************************)
\* playbin.set_state(gst::State::Playing).expect(..)
Ctl4SetStatePlaying(ok) ==
    /\ chapter = 4
    /\ pcCtl = "start"
    /\ target' = "Playing"
    /\ IF ok
       THEN /\ pcCtl' = "loop"
            /\ UNCHANGED <<failed, bus, postedLog, nextra>>
       ELSE /\ pcCtl' = "panic"
            /\ failed' = TRUE
            /\ nextra' = nextra + 1
            /\ \E e \in Elems : Post(Message(postedLog, "error", e, "-", "-"))
    /\ UNCHANGED <<chapter, gstate, elemState, poppedLog, observed>>
    /\ UNCHANGED <<vars8, varsSink, vars4, varsTee, varsPad, varsMech, varsCaps>>

FromAnyElement(msg) == msg.kind = "state-changed"
TerminatesUnlessStateChanged(msg) == msg.kind # "state-changed"
\* the MessageView::Error and MessageView::Eos arms: custom_data.terminate = true
Terminates(msg) == msg.kind \in {"error", "eos"}
\* MessageView::StateChanged(state_changed) with state_changed.src() ==
\* custom_data.playbin
FromPlaybin(msg) == msg.kind = "state-changed" /\ msg.src = Pipeline

\* bus.timed_pop(100 ms) returned Some(msg): handle_message(&mut custom_data, &msg)
Ctl4Pop ==
    /\ chapter = 4
    /\ pcCtl = "loop"
    /\ ~terminate
    /\ bus # <<>>
    /\ bus' = Tail(bus)
    /\ poppedLog' = Append(poppedLog, Head(bus))
    /\ LET msg == Head(bus)
           own == FromPlaybin(msg)
           nowPlaying == msg.new = "Playing"
       IN  /\ terminate' = (terminate \/ Terminates(msg))
           /\ duration' = IF msg.kind = "duration-changed" THEN None ELSE duration
           /\ playing' = IF own THEN nowPlaying ELSE playing
           /\ IF own /\ nowPlaying
              THEN \E answered \in BOOLEAN, can \in BOOLEAN :
                      /\ seekable # None => seekable = Some(can)
                      /\ seekable' = IF answered THEN Some(can) ELSE seekable
                      /\ seek_enabled' = IF answered THEN can ELSE seek_enabled
              ELSE UNCHANGED <<seek_enabled, seekable>>
    /\ UNCHANGED <<chapter, pcCtl, target, gstate, elemState, failed, nextra,
                   postedLog, observed>>
    /\ UNCHANGED <<seek_done, position, posKnown, keyUnit, seekHist,
                   seekProgress, afterSeek>>
    /\ UNCHANGED <<vars8, varsSink, varsTee, varsPad, varsCaps>>
    /\ mech' = Associate(mech, "timed_pop")
    /\ UNCHANGED <<taken8, handled8>>

BlockingPopNone(b) == FALSE
\* bus.timed_pop(100 * MSECOND) returns None when the timeout ends with no
\* message on the bus
TimedPopNone(b) == b = <<>>

DurationQueriedAlways(cached, answer) == answer
\* if custom_data.duration == NONE { custom_data.duration = playbin.query_duration() }
DurationAfterPoll(cached, answer) == IF cached = None THEN answer ELSE cached

ShouldSeekAgain(enabled, done, pos) == enabled /\ pos > SeekThreshold
ShouldSeekAnyPosition(enabled, done, pos) == enabled /\ ~done
\* if custom_data.seek_enabled && !custom_data.seek_done && position > 10 s
ShouldSeek(enabled, done, pos) == enabled /\ ~done /\ pos > SeekThreshold

\* bus.timed_pop(100 ms) returned None while custom_data.playing: query the
\* position (playback has moved on by adv), cache the duration, seek once
Ctl4Poll(adv) ==
    /\ chapter = 4
    /\ pcCtl = "loop"
    /\ ~terminate
    /\ TimedPopNone(bus)
    /\ playing
    /\ IF ~QuerySupported(gstate)
       THEN /\ pcCtl' = "panic"
            /\ UNCHANGED <<gstate, bus, postedLog, seek_done, duration, position,
                           posKnown, seekHist, seekProgress, afterSeek, keyUnit>>
       ELSE LET pos == IF gstate = "Playing" THEN Min(position + adv, MaxPos)
                       ELSE position
                moved == pos - position
            IN  /\ posKnown' = TRUE
                /\ \E answer \in {None, Some(MaxPos)} :
                      duration' = DurationAfterPoll(duration, answer)
                /\ afterSeek' = IF seekHist # None /\ afterSeek = None
                                THEN Some([q |-> pos, progress |-> seekProgress + moved])
                                ELSE afterSeek
                /\ IF ShouldSeek(seek_enabled, seek_done, pos)
                   THEN \E ku \in 1..MaxKeyUnit :
                        LET res == SeekResult(gstate, TRUE, seekable = Some(TRUE))
                            landed == SeekLanding(SeekFlags, SeekTarget, ku)
                        IN  /\ keyUnit' = Some(ku)
                            /\ seekHist' = Some([queried |-> pos, known |-> TRUE,
                                                 result |-> res, landed |-> landed])
                            /\ seekProgress' = 0
                            /\ IF res = "Ok"
                               THEN /\ position' = landed
                                    /\ seek_done' = TRUE
                                    /\ gstate' = "Paused"
                                    /\ Post(Message(postedLog, "state-changed",
                                                    Pipeline, gstate, "Paused"))
                                    /\ UNCHANGED pcCtl
                               ELSE /\ pcCtl' = "panic"
                                    /\ position' = pos
                                    /\ UNCHANGED <<seek_done, gstate, bus, postedLog>>
                   ELSE /\ position' = pos
                        /\ seekProgress' = seekProgress + moved
                        /\ UNCHANGED <<pcCtl, seek_done, gstate, bus, postedLog,
                                       seekHist, keyUnit>>
    /\ UNCHANGED <<chapter, target, elemState, failed, nextra, poppedLog, observed>>
    /\ UNCHANGED <<playing, terminate, seek_enabled, seekable>>
    /\ UNCHANGED <<vars8, varsSink, varsTee, varsPad, varsCaps>>
    /\ mech' = Associate(mech, "timed_pop")
    /\ UNCHANGED <<taken8, handled8>>

\* the loop ends on terminate; playbin.set_state(gst::State::Null)
Ctl4SetStateNull ==
    /\ chapter = 4
    /\ pcCtl = "loop"
    /\ terminate
    /\ pcCtl' = "done"
    /\ target' = "Null"
    /\ gstate' = "Null"
    /\ elemState' = [e \in Elems |-> "Null"]
    /\ UNCHANGED <<chapter, failed, bus, nextra, postedLog, poppedLog, observed>>
    /\ UNCHANGED <<vars8, varsSink, vars4, varsTee, varsPad, varsMech, varsCaps>>

Next4 ==
    \/ \E ok \in BOOLEAN : Ctl4SetStatePlaying(ok)
    \/ Ctl4Pop
    \/ \E adv \in 0..MaxAdvance : Ctl4Poll(adv)
    \/ Ctl4SetStateNull
    \/ \E e \in Elems : ElementUp(e)
    \/ PipelineUp
    \/ \E e \in Elems : ElementError(e)
    \/ PostEos
    \/ PostOther("duration-changed", Pipeline)

(***************************************************************************)
(* The tee of chapters 7 and 8: request pads, links, fan-out.              *)
(***************************************************************************)
\* chapter 7: tee_audio_pad -> audio_queue, tee_video_pad -> video_queue
Branches7 == <<"audio_queue", "video_queue">>
\* chapter 8: a third request pad, tee_app_pad -> app_queue
Branches8 == <<"audio_queue", "video_queue", "app_queue">>
\* tees wired the same way with 0, 1, 2 and 8 branches
BranchesN == <<"queue_1", "queue_2", "queue_3", "queue_4",
               "queue_5", "queue_6", "queue_7", "queue_8">>
BranchCounts == [N0 |-> 0, N1 |-> 1, N2 |-> 2, N8 |-> 8]
TeeCfgs == {"chapter-7", "chapter-8"} \cup DOMAIN BranchCounts

Branches(cfg) ==
    IF cfg = "chapter-7" THEN Branches7
    ELSE IF cfg = "chapter-8" THEN Branches8
    ELSE SubSeq(BranchesN, 1, BranchCounts[cfg])

Range(f) == {f[x] : x \in DOMAIN f}

\* tee.request_pad_simple("src_%u"): the k-th request yields src_(k-1)
RequestPadName(k) == <<"src", k - 1>>

LinkTargetFirst(cfg, k) == Branches(cfg)[1]
\* the k-th tee pad is linked to the sink pad of the k-th branch's queue
LinkTarget(cfg, k) == Branches(cfg)[k]

\* the tee's request pads and the queues' sink pads accept anything
TeeSrcTemplate == ANY
QueueSinkTemplate == ANY

\* unsynchronized add/remove of a branch during active flow
ConcurrentPadMutation(st, pending) == st = "Playing" /\ pending # {}

KeepOnNull(pads) == pads
\* the transition back to Null releases the request pads, and with them
\* their links and negotiated capabilities
ReleaseOnNull(pads) == <<>>

PlayingAfterFirstLink(cfg, nlinks) == nlinks >= 1 \/ Len(Branches(cfg)) = 0
\* pipeline.set_state(Playing) is the statement after the last branch's link
PlayingAfter(cfg, nlinks) == nlinks = Len(Branches(cfg))

InitTee(cfgs) ==
    /\ teeCfg \in cfgs
    /\ pcTee = "request"
    /\ teeState = "Null"
    /\ teePads = <<>>
    /\ teeLink = <<>>
    /\ teeIn = 0
    /\ teePending = {}
    /\ recv = [q \in Range(Branches(teeCfg)) |-> <<>>]
    /\ teeNeg = <<>>
    /\ teeErr = {}

\* let tee_x_pad = tee.request_pad_simple("src_%u").unwrap()
TeeRequestPad ==
    /\ pcTee = "request"
    /\ Len(teePads) < Len(Branches(teeCfg))
    /\ teePads' = Append(teePads, RequestPadName(Len(teePads) + 1))
    /\ teeNeg' = Append(teeNeg, None)
    /\ teeErr' = IF ConcurrentPadMutation(teeState, teePending)
                 THEN teeErr \cup {"ConcurrentPadMutation"} ELSE teeErr
    /\ pcTee' = "link"
    /\ UNCHANGED <<teeCfg, teeState, teeLink, teeIn, teePending, recv>>
    /\ UNCHANGED <<vars8, varsSink, varsCtl, vars4, varsPad, varsMech, varsCaps>>

\* tee_x_pad.link(&queue_x_pad).unwrap()
TeeLinkPad ==
    /\ pcTee = "link"
    /\ teeLink' = Append(teeLink, LinkTarget(teeCfg, Len(teePads)))
    /\ pcTee' = "request"
    /\ UNCHANGED <<teeCfg, teeState, teePads, teeIn, teePending, recv, teeNeg, teeErr>>
    /\ UNCHANGED <<vars8, varsSink, varsCtl, vars4, varsPad, varsMech, varsCaps>>

\* pipeline.set_state(gst::State::Playing), after the last branch is linked;
\* the bus loop follows
TeeSetStatePlaying ==
    /\ pcTee = "request"
    /\ teeState = "Null"
    /\ PlayingAfter(teeCfg, Len(teeLink))
    /\ pcTee' = IF Len(teePads) = Len(Branches(teeCfg)) THEN "run" ELSE pcTee
    /\ teeState' = "Playing"
    /\ UNCHANGED <<teeCfg, teePads, teeLink, teeIn, teePending, recv, teeNeg, teeErr>>
    /\ UNCHANGED <<vars8, varsSink, varsCtl, vars4, varsPad, varsMech, varsCaps>>

\* the source pushes a buffer on the tee's sink pad: it is to be forwarded
\* on every linked request pad
TeeChain ==
    /\ teeState = "Playing"
    /\ teePending = {}
    /\ teeIn < MaxTeeBuffers
    /\ teeIn' = teeIn + 1
    /\ teePending' = DOMAIN teeLink
    /\ UNCHANGED <<teeCfg, pcTee, teeState, teePads, teeLink, recv, teeNeg, teeErr>>
    /\ UNCHANGED <<vars8, varsSink, varsCtl, vars4, varsPad, varsMech, varsCaps>>

\* the tee forwards the buffer on request pad k, whose link's capability is
\* fixed before the first buffer; the order among the branches is not fixed
TeePush(k) ==
    /\ k \in teePending
    /\ recv' = [recv EXCEPT ![teeLink[k]] = Append(@, teeIn)]
    /\ teeNeg' = [teeNeg EXCEPT
                     ![k] = Some(Negotiate(StreamCaps, TeeSrcTemplate, QueueSinkTemplate))]
    /\ teePending' = teePending \ {k}
    /\ UNCHANGED <<teeCfg, pcTee, teeState, teePads, teeLink, teeIn, teeErr>>
    /\ UNCHANGED <<vars8, varsSink, varsCtl, vars4, varsPad, varsMech, varsCaps>>

\* pipeline.set_state(gst::State::Null) after the bus loop, which an error
\* or end-of-stream message may end at any time: the streaming thread
\* finishes the buffer it is forwarding, then the pads are released
TeeSetStateNull ==
    /\ pcTee = "run"
    /\ teePending = {}
    /\ pcTee' = "done"
    /\ teeState' = "Null"
    /\ teePads' = ReleaseOnNull(teePads)
    /\ teeLink' = ReleaseOnNull(teeLink)
    /\ teeNeg' = ReleaseOnNull(teeNeg)
    /\ UNCHANGED <<teeCfg, teeIn, teePending, recv, teeErr>>
    /\ UNCHANGED <<vars8, varsSink, varsCtl, vars4, varsPad, varsMech, varsCaps>>

NextTee ==
    \/ TeeRequestPad
    \/ TeeLinkPad
    \/ TeeSetStatePlaying
    \/ TeeChain
    \/ \E k \in 1..Len(BranchesN) : TeePush(k)
    \/ TeeSetStateNull

(***************************************************************************)
(* Chapter 3: the pad-added handler.                                       *)
(***************************************************************************)
\* the sink pad template of audioconvert
ConvertSinkCaps == << [name |-> "audio/x-raw", vals |-> {"S16LE", "F32LE"}] >>

\* caps of the pads uridecodebin may add: raw audio convert accepts, raw
\* video, raw audio in a format convert does not accept, and audio of a
\* media type that only begins like raw audio
NewPadCaps ==
    { << [name |-> "audio/x-raw", vals |-> {"S16LE"}] >>,
      << [name |-> "video/x-raw", vals |-> {"I420"}] >>,
      << [name |-> "audio/x-raw", vals |-> {"DSD"}] >>,
      << [name |-> "audio/x-raw-float", vals |-> {"F32LE"}] >> }

\* a media type as the sequence of the pieces that tell the model's media
\* types apart
TypeChars(name) ==
    IF name = "audio/x-raw-float" THEN <<"audio/x-raw", "-float">> ELSE <<name>>

\* str::starts_with
StartsWith(name, prefix) ==
    LET n == TypeChars(name)
        q == TypeChars(prefix)
    IN  Len(q) <= Len(n) /\ SubSeq(n, 1, Len(q)) = q

IsAudioExactly(caps) == caps[1].name = "audio/x-raw"
\* new_pad_type.starts_with("audio/x-raw") on structure(0)
IsAudio(caps) == StartsWith(caps[1].name, "audio/x-raw")

InitPad ==
    /\ padCaps = <<>>
    /\ padStage = <<>>
    /\ sawLinked = <<>>
    /\ sinkPeers = {}
    /\ attempts = <<>>

AlreadyLinkedNever(peers) == FALSE
\* sink_pad.is_linked()
AlreadyLinked(peers) == peers # {}

\* uridecodebin adds a pad with these caps; the handler starts: it gets
\* convert's sink pad and returns if that is linked
PadAdded(caps) ==
    /\ Len(padCaps) < MaxPads
    /\ padCaps' = Append(padCaps, caps)
    /\ sawLinked' = Append(sawLinked, sinkPeers # {})
    /\ padStage' = Append(padStage, IF AlreadyLinked(sinkPeers) THEN "done" ELSE "link")
    /\ UNCHANGED <<sinkPeers, attempts>>
    /\ UNCHANGED <<vars8, varsSink, varsCtl, vars4, varsTee, varsMech, varsCaps>>

\* the rest of the handler for pad p: return unless the caps are raw audio,
\* else src_pad.link(&sink_pad) and print the outcome
PadAddedLink(p) ==
    /\ p \in DOMAIN padStage
    /\ padStage[p] = "link"
    /\ padStage' = [padStage EXCEPT ![p] = "done"]
    /\ IF IsAudio(padCaps[p])
       THEN LET res == PadLink(padCaps[p], ConvertSinkCaps, FALSE, sinkPeers # {})
            IN  /\ attempts' = Append(attempts, [pad |-> p, result |-> res,
                                                  linked |-> sinkPeers # {}])
                /\ sinkPeers' = IF res = "Ok" THEN sinkPeers \cup {p} ELSE sinkPeers
       ELSE UNCHANGED <<sinkPeers, attempts>>
    /\ UNCHANGED <<padCaps, sawLinked>>
    /\ UNCHANGED <<vars8, varsSink, varsCtl, vars4, varsTee, varsMech, varsCaps>>

NextPad ==
    \/ \E caps \in NewPadCaps : PadAdded(caps)
    \/ \E p \in 1..MaxPads : PadAddedLink(p)

(***************************************************************************)
(* Chapter 8: initial state (CustomData::new, main before set_state).      *)
(***************************************************************************)
Init8 ==
    /\ source_id = None
    /\ num_samples = 0
    /\ wave = 0
    /\ dataAlive = TRUE
    /\ mutex = "free"
    /\ idle = {}
    /\ nextId = 1
    /\ cur = None
    /\ stage = "none"
    /\ buf = None
    /\ pushOk = TRUE
    /\ pcMain = "start"
    /\ bus8 = <<>>
    /\ posted8 = 0
    /\ queued = 0
    /\ pcStream = "off"
    /\ nbuilt = 0
    /\ npushed = 0
    /\ lastPts = None
    /\ stopped = FALSE
    /\ lastNeed = "none"
    /\ inApp = 0
    /\ sinkQ = 0
    /\ pcSink = "idle"
    /\ notified = 0
    /\ pulls = 0
    /\ pullFail = 0
    /\ skipped = 0


(***************************************************************************)
(* Chapter 8: main().                                                      *)
(***************************************************************************)
\* pipeline.set_state(gst::State::Playing).expect(..): the streaming threads
\* start; when the call fails, possibly with the threads already started on
\* the way through Paused, main panics
SetStatePlaying8(ok, started) ==
    /\ pcMain = "start"
    /\ ok => started
    /\ pcMain' = IF ok THEN "playing" ELSE "panic"
    /\ pcStream' = IF started THEN "create" ELSE "off"
    /\ UNCHANGED <<varsCtl, vars4, varsTee, varsPad, varsSink, varsCaps>>
    /\ UNCHANGED <<source_id, num_samples, wave, dataAlive, mutex, idle, nextId,
                   cur, stage, buf, pushOk, bus8, posted8, queued, nbuilt, npushed,
                   lastPts, stopped, lastNeed>>
    /\ mech' = Associate(mech, "signal_watch")
    /\ UNCHANGED <<taken8, handled8>>

\* main_loop.run()
MainLoopRun ==
    /\ pcMain = "playing"
    /\ pcMain' = "loop"
    /\ UNCHANGED <<varsCtl, vars4, varsTee, varsPad, varsSink, varsMech, varsCaps>>
    /\ UNCHANGED <<source_id, num_samples, wave, dataAlive, mutex, idle, nextId,
                   cur, stage, buf, pushOk, bus8, posted8, queued, pcStream,
                   nbuilt, npushed, lastPts, stopped, lastNeed>>

\* an element of the running pipeline posts a message on the bus
PostMessage8(kind) ==
    /\ pcStream # "off"
    /\ posted8 < MaxMsgs8
    /\ bus8' = Append(bus8, kind)
    /\ posted8' = posted8 + 1
    /\ UNCHANGED <<varsCtl, vars4, varsTee, varsPad, varsSink, varsMech, varsCaps>>
    /\ UNCHANGED <<source_id, num_samples, wave, dataAlive, mutex, idle, nextId,
                   cur, stage, buf, pushOk, pcMain, queued, pcStream, nbuilt, npushed,
                   lastPts, stopped, lastNeed>>

NoDetail == None
\* bus.connect_message(Some("error"), ..): the detail of the signal
HandlerDetail == Some("error")

EmitsEvery(detail, kind) == TRUE
\* the watch emits "message::<kind>": a handler connected with a detail runs
\* for that kind only, one connected without runs for every message
Emits(detail, kind) == detail = None \/ kind \in detail

\* match msg.view() { Error(..) => .., StateChanged(..) => .., _ => unreachable!() }
HandlerArm(kind) ==
    IF kind = "error" THEN "Error"
    ELSE IF kind = "state-changed" THEN "StateChanged"
    ELSE "unreachable"

\* the signal watch takes one message off the bus on a main loop turn; the
\* handler runs if the signal's detail matches: the Error arm quits the main
\* loop, unreachable!() panics
BusDispatch8 ==
    /\ pcMain = "loop"
    /\ cur = None
    /\ bus8 # <<>>
    /\ bus8' = Tail(bus8)
    /\ taken8' = Append(taken8, Head(bus8))
    /\ IF Emits(HandlerDetail, Head(bus8))
       THEN /\ handled8' = Append(handled8, HandlerArm(Head(bus8)))
            /\ pcMain' = IF HandlerArm(Head(bus8)) = "Error" THEN "quit"
                         ELSE IF HandlerArm(Head(bus8)) = "unreachable" THEN "panic"
                         ELSE "loop"
       ELSE UNCHANGED <<handled8, pcMain>>
    /\ UNCHANGED <<varsCtl, vars4, varsTee, varsPad, varsSink, varsCaps>>
    /\ UNCHANGED <<source_id, num_samples, wave, dataAlive, mutex, idle, nextId,
                   cur, stage, buf, pushOk, posted8, queued, pcStream, nbuilt, npushed,
                   lastPts, stopped, lastNeed>>
    /\ mech' = Associate(mech, "signal_watch")

\* pipeline.set_state(gst::State::Null): returns once the streaming threads
\* have left their callbacks and stopped
SetStateNull8 ==
    /\ pcMain = "quit"
    /\ pcStream # "need"
    /\ pcSink = "idle"
    /\ pcMain' = "null"
    /\ pcStream' = "off"
    /\ UNCHANGED <<varsCtl, vars4, varsTee, varsPad, varsSink, varsMech, varsCaps>>
    /\ UNCHANGED <<source_id, num_samples, wave, dataAlive, mutex, idle, nextId,
                   cur, stage, buf, pushOk, bus8, posted8, queued, nbuilt, npushed,
                   lastPts, stopped, lastNeed>>

\* the panic unwinds main: `data` is dropped while the pipeline, which is not
\* in the Null state, keeps its streaming threads; the value goes once no
\* callback holds an upgraded reference
Unwind8 ==
    /\ pcMain = "panic"
    /\ pcStream # "need"
    /\ pcSink \notin {"lock", "pull"}
    /\ pcMain' = "aborted"
    /\ dataAlive' = FALSE
    /\ UNCHANGED <<varsCtl, vars4, varsTee, varsPad, varsSink, varsMech, varsCaps>>
    /\ UNCHANGED <<source_id, num_samples, wave, mutex, idle, nextId, cur, stage,
                   buf, pushOk, bus8, posted8, queued, pcStream, nbuilt, npushed,
                   lastPts, stopped, lastNeed>>

\* bus.remove_signal_watch(); main returns and drops `data`
RemoveSignalWatch8 ==
    /\ pcMain = "null"
    /\ pcMain' = "done"
    /\ dataAlive' = FALSE
    /\ UNCHANGED <<varsCtl, vars4, varsTee, varsPad, varsSink, varsMech, varsCaps>>
    /\ UNCHANGED <<source_id, num_samples, wave, mutex, idle, nextId, cur, stage,
                   buf, pushOk, bus8, posted8, queued, pcStream, nbuilt, npushed,
                   lastPts, stopped, lastNeed>>

(***************************************************************************)
(* Chapter 8: the appsrc streaming thread and the need_data callback.      *)
(***************************************************************************)
\* the streaming thread takes a buffer off the appsrc queue and pushes it
\* downstream, where the tee hands it to the appsink branch too
StreamPull ==
    /\ pcStream = "create"
    /\ queued > 0
    /\ queued' = queued - 1
    /\ inApp' = inApp + 1
    /\ UNCHANGED <<sinkQ, pcSink, notified, pulls, pullFail, skipped>>
    /\ UNCHANGED <<varsCtl, vars4, varsTee, varsPad, varsMech, varsCaps>>
    /\ UNCHANGED <<source_id, num_samples, wave, dataAlive, mutex, idle, nextId,
                   cur, stage, buf, pushOk, pcMain, bus8, posted8, pcStream,
                   nbuilt, npushed, lastPts, stopped, lastNeed>>

NeedDataLockNoUpgrade ==
    /\ pcStream = "create"
    /\ queued = 0
    /\ nextId <= MaxTasks
    /\ mutex = "free"
    /\ mutex' = "stream"
    /\ pcStream' = "need"
    /\ UNCHANGED <<varsCtl, vars4, varsTee, varsPad, varsSink, varsMech, varsCaps>>
    /\ UNCHANGED <<source_id, num_samples, wave, dataAlive, idle, nextId, cur,
                   stage, buf, pushOk, pcMain, bus8, posted8, queued, nbuilt, npushed,
                   lastPts, stopped, lastNeed>>

\* the queue is empty: need_data is called; data_weak.upgrade() and
\* data.lock()
NeedDataLock ==
    /\ pcStream = "create"
    /\ queued = 0
    /\ nextId <= MaxTasks
    /\ IF dataAlive
       THEN /\ mutex = "free"
            /\ mutex' = "stream"
            /\ pcStream' = "need"
       ELSE /\ pcStream' = "wait"
            /\ UNCHANGED mutex
    /\ UNCHANGED <<varsCtl, vars4, varsTee, varsPad, varsSink, varsMech, varsCaps>>
    /\ UNCHANGED <<source_id, num_samples, wave, dataAlive, idle, nextId, cur,
                   stage, buf, pushOk, pcMain, bus8, posted8, queued, nbuilt, npushed,
                   lastPts, stopped, lastNeed>>

NeedDataBodyNoIdle ==
    /\ pcStream = "need"
    /\ IF source_id = None
       THEN /\ source_id' = Some(nextId)
            /\ nextId' = nextId + 1
            /\ lastNeed' = "registered"
       ELSE /\ lastNeed' = "noop"
            /\ UNCHANGED <<source_id, nextId>>
    /\ stopped' = FALSE
    /\ mutex' = "free"
    /\ pcStream' = "wait"
    /\ UNCHANGED <<varsCtl, vars4, varsTee, varsPad, varsSink, varsMech, varsCaps>>
    /\ UNCHANGED <<num_samples, wave, dataAlive, idle, cur, stage, buf, pushOk, pcMain,
                   bus8, posted8, queued, nbuilt, npushed, lastPts>>
NeedDataBodyNoCheck ==
    /\ pcStream = "need"
    /\ source_id' = Some(nextId)
    /\ idle' = idle \cup {nextId}
    /\ nextId' = nextId + 1
    /\ lastNeed' = IF source_id = None THEN "registered" ELSE "noop"
    /\ stopped' = FALSE
    /\ mutex' = "free"
    /\ pcStream' = "wait"
    /\ UNCHANGED <<varsCtl, vars4, varsTee, varsPad, varsSink, varsMech, varsCaps>>
    /\ UNCHANGED <<num_samples, wave, dataAlive, cur, stage, buf, pushOk, pcMain,
                   bus8, posted8, queued, nbuilt, npushed, lastPts>>

\* if d.source_id.is_none() { d.source_id = Some(idle_add(..)) }; the guard
\* drops at the end of the callback
NeedDataBody ==
    /\ pcStream = "need"
    /\ IF source_id = None
       THEN /\ source_id' = Some(nextId)
            /\ idle' = idle \cup {nextId}
            /\ nextId' = nextId + 1
            /\ lastNeed' = "registered"
       ELSE /\ lastNeed' = "noop"
            /\ UNCHANGED <<source_id, idle, nextId>>
    /\ stopped' = FALSE
    /\ mutex' = "free"
    /\ pcStream' = "wait"
    /\ UNCHANGED <<varsCtl, vars4, varsTee, varsPad, varsSink, varsMech, varsCaps>>
    /\ UNCHANGED <<num_samples, wave, dataAlive, cur, stage, buf, pushOk, pcMain,
                   bus8, posted8, queued, nbuilt, npushed, lastPts>>

\* the streaming thread waits on the queue's condition until a buffer arrives
StreamWake ==
    /\ pcStream = "wait"
    /\ queued > 0
    /\ pcStream' = "create"
    /\ UNCHANGED <<varsCtl, vars4, varsTee, varsPad, varsSink, varsMech, varsCaps>>
    /\ UNCHANGED <<source_id, num_samples, wave, dataAlive, mutex, idle, nextId,
                   cur, stage, buf, pushOk, pcMain, bus8, posted8, queued,
                   nbuilt, npushed, lastPts, stopped, lastNeed>>

(***************************************************************************)
(* Chapter 8: the appsink and the new_sample callback.                     *)
(***************************************************************************)
\* a buffer reaches the appsink: the sample is queued and new_sample is called
\* on the branch's streaming thread
SinkRender ==
    /\ pcStream # "off"
    /\ pcSink = "idle"
    /\ inApp > 0
    /\ inApp' = inApp - 1
    /\ sinkQ' = sinkQ + 1
    /\ notified' = notified + 1
    /\ pcSink' = "notify"
    /\ UNCHANGED <<pulls, pullFail, skipped>>
    /\ UNCHANGED <<vars8, varsCtl, vars4, varsTee, varsPad, varsMech, varsCaps>>

\* match data_weak.upgrade() { Some(data) => data, None => return Ok(..) }
NewSampleUpgrade ==
    /\ pcSink = "notify"
    /\ IF dataAlive
       THEN /\ pcSink' = "lock"
            /\ UNCHANGED skipped
       ELSE /\ pcSink' = "idle"
            /\ skipped' = skipped + 1
    /\ UNCHANGED <<inApp, sinkQ, notified, pulls, pullFail>>
    /\ UNCHANGED <<vars8, varsCtl, vars4, varsTee, varsPad, varsMech, varsCaps>>

\* let appsink = { let data = data.lock().unwrap(); data.appsink.clone() }
NewSampleLock ==
    /\ pcSink = "lock"
    /\ mutex = "free"
    /\ pcSink' = "pull"
    /\ UNCHANGED <<inApp, sinkQ, notified, pulls, pullFail, skipped>>
    /\ UNCHANGED <<vars8, varsCtl, vars4, varsTee, varsPad, varsMech, varsCaps>>

NewSamplePullTwice ==
    /\ pcSink = "pull"
    /\ pcSink' = "idle"
    /\ sinkQ' = IF sinkQ > 0 THEN sinkQ - 1 ELSE sinkQ
    /\ pulls' = IF sinkQ > 0 THEN pulls + 1 ELSE pulls
    /\ pullFail' = pullFail + 1
    /\ UNCHANGED <<inApp, notified, skipped>>
    /\ UNCHANGED <<vars8, varsCtl, vars4, varsTee, varsPad, varsMech, varsCaps>>

\* if let Ok(_sample) = appsink.pull_sample() { print!("*") }; Ok(..)
NewSamplePull ==
    /\ pcSink = "pull"
    /\ pcSink' = "idle"
    /\ IF sinkQ > 0
       THEN /\ sinkQ' = sinkQ - 1
            /\ pulls' = pulls + 1
            /\ UNCHANGED pullFail
       ELSE /\ pullFail' = pullFail + 1
            /\ UNCHANGED <<sinkQ, pulls>>
    /\ UNCHANGED <<inApp, notified, skipped>>
    /\ UNCHANGED <<vars8, varsCtl, vars4, varsTee, varsPad, varsMech, varsCaps>>

(***************************************************************************)
(* Chapter 8: the production task (the closure given to idle_add) and the  *)
(* enough_data callback, which appsrc calls from inside push_buffer.       *)
(***************************************************************************)
\* the main loop, with no bus message pending, dispatches idle source t;
\* data_weak.upgrade() fails once `data` is gone
IdleDispatch(t, max) ==
    /\ pcMain = "loop"
    /\ cur = None
    /\ bus8 = <<>>
    /\ t \in idle
    /\ num_samples < max * SamplesPerBuffer
    /\ IF dataAlive
       THEN /\ cur' = Some(t)
            /\ stage' = "lock"
            /\ UNCHANGED idle
       ELSE /\ idle' = idle \ {t}
            /\ UNCHANGED <<cur, stage>>
    /\ UNCHANGED <<varsCtl, vars4, varsTee, varsPad, varsSink, varsMech, varsCaps>>
    /\ UNCHANGED <<source_id, num_samples, wave, dataAlive, mutex, nextId, buf,
                   pushOk, pcMain, bus8, posted8, queued, pcStream, nbuilt, npushed,
                   lastPts, stopped, lastNeed>>

\* let mut data = data.lock().unwrap()
IdleLock ==
    /\ stage = "lock"
    /\ mutex = "free"
    /\ mutex' = "main"
    /\ stage' = "fill"
    /\ UNCHANGED <<varsCtl, vars4, varsTee, varsPad, varsSink, varsMech, varsCaps>>
    /\ UNCHANGED <<source_id, num_samples, wave, dataAlive, idle, nextId, cur,
                   buf, pushOk, pcMain, bus8, posted8, queued, pcStream, nbuilt, npushed,
                   lastPts, stopped, lastNeed>>

GuardHeldOverPush(m) == m
\* the guard taken by data.lock() lives in the block `let (appsrc, buffer) =
\* { .. }` and is dropped at its end, before push_buffer
GuardAfterFill(m) == "free"

IdleFillBytes ==
    /\ stage = "fill"
    /\ buf' = Some([pts |-> BufferPts(num_samples), duration |-> BufferDuration])
    /\ wave' = wave + 1
    /\ num_samples' = num_samples + CHUNK_SIZE
    /\ nbuilt' = nbuilt + 1
    /\ mutex' = "free"
    /\ stage' = "push"
    /\ UNCHANGED <<varsCtl, vars4, varsTee, varsPad, varsSink, varsMech, varsCaps>>
    /\ UNCHANGED <<source_id, dataAlive, idle, nextId, cur, pushOk, pcMain, bus8,
                   posted8, queued, pcStream, npushed, lastPts, stopped,
                   lastNeed>>

\* the block that builds the buffer under the lock; the guard drops at its end
IdleFill ==
    /\ stage = "fill"
    /\ buf' = Some([pts |-> BufferPts(num_samples), duration |-> BufferDuration])
    /\ wave' = wave + 1
    /\ num_samples' = num_samples + SamplesPerBuffer
    /\ nbuilt' = nbuilt + 1
    /\ mutex' = GuardAfterFill(mutex)
    /\ stage' = "push"
    /\ UNCHANGED <<varsCtl, vars4, varsTee, varsPad, varsSink, varsMech, varsCaps>>
    /\ UNCHANGED <<source_id, dataAlive, idle, nextId, cur, pushOk, pcMain, bus8,
                   posted8, queued, pcStream, npushed, lastPts, stopped,
                   lastNeed>>

\* appsrc.push_buffer(buffer): fails (flushing, end of stream) or queues the
\* buffer, after calling enough_data when the queue is full
IdlePush(ok) ==
    /\ stage = "push"
    /\ pushOk' = ok
    /\ IF ok /\ queued < QueueMax
       THEN /\ queued' = queued + 1
            /\ npushed' = npushed + 1
            /\ lastPts' = {b.pts : b \in buf}
            /\ stage' = "ret"
       ELSE /\ stage' = IF ok THEN "enough" ELSE "ret"
            /\ UNCHANGED <<queued, npushed, lastPts>>
    /\ UNCHANGED <<varsCtl, vars4, varsTee, varsPad, varsSink, varsMech, varsCaps>>
    /\ UNCHANGED <<source_id, num_samples, wave, dataAlive, mutex, idle, nextId,
                   cur, buf, pcMain, bus8, posted8, pcStream, nbuilt, stopped,
                   lastNeed>>

\* enough_data: data_weak2.upgrade() and data.lock()
EnoughDataLock ==
    /\ stage = "enough"
    /\ dataAlive
    /\ mutex = "free"
    /\ mutex' = "main"
    /\ stage' = "enough_body"
    /\ UNCHANGED <<varsCtl, vars4, varsTee, varsPad, varsSink, varsMech, varsCaps>>
    /\ UNCHANGED <<source_id, num_samples, wave, dataAlive, idle, nextId, cur,
                   buf, pushOk, pcMain, bus8, posted8, queued, pcStream, nbuilt, npushed,
                   lastPts, stopped, lastNeed>>

\* if let Some(_source) = data.source_id.take() { /* source.remove() is
\* commented out */ }; then push_buffer queues the buffer and returns
EnoughDataBody ==
    /\ stage = "enough_body"
    /\ source_id' = None
    /\ stopped' = TRUE
    /\ mutex' = "free"
    /\ queued' = queued + 1
    /\ npushed' = npushed + 1
    /\ lastPts' = {b.pts : b \in buf}
    /\ stage' = "ret"
    /\ UNCHANGED <<varsCtl, vars4, varsTee, varsPad, varsSink, varsMech, varsCaps>>
    /\ UNCHANGED <<num_samples, wave, dataAlive, idle, nextId, cur, buf, pushOk,
                   pcMain, bus8, posted8, pcStream, nbuilt, lastNeed>>

\* glib::Continue(appsrc.push_buffer(buffer).is_ok()): the source stays
\* attached on true and is destroyed on false
IdleReturn ==
    /\ stage = "ret"
    /\ idle' = IF pushOk THEN idle ELSE idle \ cur
    /\ cur' = None
    /\ stage' = "none"
    /\ buf' = None
    /\ pushOk' = TRUE
    /\ UNCHANGED <<varsCtl, vars4, varsTee, varsPad, varsSink, varsMech, varsCaps>>
    /\ UNCHANGED <<source_id, num_samples, wave, dataAlive, mutex, nextId, pcMain,
                   bus8, posted8, queued, pcStream, nbuilt, npushed, lastPts, stopped,
                   lastNeed>>

MessageKinds8 == {"error", "eos", "state-changed"}

Next8 ==
    \/ \E ok, started \in BOOLEAN : SetStatePlaying8(ok, started)
    \/ Unwind8
    \/ SinkRender
    \/ NewSampleUpgrade
    \/ NewSampleLock
    \/ NewSamplePull
    \/ MainLoopRun
    \/ \E kind \in MessageKinds8 : PostMessage8(kind)
    \/ BusDispatch8
    \/ SetStateNull8
    \/ RemoveSignalWatch8
    \/ StreamPull
    \/ NeedDataLock
    \/ NeedDataBody
    \/ StreamWake
    \/ \E t \in 1..MaxTasks : IdleDispatch(t, MaxBuffers)
    \/ IdleLock
    \/ IdleFill
    \/ \E ok \in BOOLEAN : IdlePush(ok)
    \/ EnoughDataLock
    \/ EnoughDataBody
    \/ IdleReturn

Init == Init8 /\ InitCtl({8}) /\ Init4 /\ InitTee({"chapter-8"}) /\ InitPad /\ InitCaps(0, {ANY})

Spec8 == Init /\ [][Next8]_vars

\* chapter 8 while the appsrc accepts every buffer: push_buffer fails only on
\* an appsrc that is flushing, which it is not while main_loop.run() runs;
\* of the messages the handler is not connected for, state changes stand for
\* all
Next8Fair ==
    \/ \E ok, started \in BOOLEAN : SetStatePlaying8(ok, started)
    \/ Unwind8
    \/ SinkRender
    \/ NewSampleUpgrade
    \/ NewSampleLock
    \/ NewSamplePull
    \/ MainLoopRun
    \/ \E kind \in {"error", "state-changed"} : PostMessage8(kind)
    \/ BusDispatch8
    \/ SetStateNull8
    \/ RemoveSignalWatch8
    \/ StreamPull
    \/ NeedDataLock
    \/ NeedDataBody
    \/ StreamWake
    \/ \E t \in 1..MaxTasks : IdleDispatch(t, MaxBuffers)
    \/ IdleLock
    \/ IdleFill
    \/ IdlePush(TRUE)
    \/ EnoughDataLock
    \/ EnoughDataBody
    \/ IdleReturn

\* the main loop dispatches what is ready: a pending bus message first, an
\* idle source otherwise, and a dispatched callback runs to its end
Spec8Fair ==
    /\ Init
    /\ [][Next8Fair]_vars
    /\ WF_vars(MainLoopRun)
    /\ WF_vars(BusDispatch8)
    /\ WF_vars(\E t \in 1..MaxTasks : IdleDispatch(t, MaxBuffers))
    /\ WF_vars(IdleLock)
    /\ WF_vars(IdleFill)
    /\ WF_vars(IdlePush(TRUE))
    /\ WF_vars(EnoughDataLock)
    /\ WF_vars(EnoughDataBody)
    /\ WF_vars(IdleReturn)

\* chapter 8 on the schedule where nothing drains the appsrc queue and no
\* message is posted
NextTs ==
    \/ SetStatePlaying8(TRUE, TRUE)
    \/ MainLoopRun
    \/ NeedDataLock
    \/ NeedDataBody
    \/ StreamWake
    \/ \E t \in 1..MaxTasks : IdleDispatch(t, MaxTsBuffers)
    \/ IdleLock
    \/ IdleFill
    \/ \E ok \in BOOLEAN : IdlePush(ok)
    \/ EnoughDataLock
    \/ EnoughDataBody
    \/ IdleReturn

SpecTs == Init /\ [][NextTs]_vars

\* chapters 1, 3, 6 and 7
InitBus == Init8 /\ InitCtl({1, 3, 6, 7}) /\ Init4 /\ InitTee({"chapter-7"}) /\ InitPad /\ InitCaps(0, {ANY})

SpecBus == InitBus /\ [][NextBus]_vars

\* chapter 6, with a controller thread that takes its turn whenever a message
\* is pending and goes on after the loop
InitBus6 == Init8 /\ InitCtl({6}) /\ Init4 /\ InitTee({"chapter-7"}) /\ InitPad /\ InitCaps(0, {ANY})

SpecBusFair ==
    InitBus6 /\ [][NextBus]_vars /\ WF_vars(CtlPop) /\ WF_vars(CtlSetStateNull)

\* chapter 4
Init4Spec == Init8 /\ InitCtl({4}) /\ Init4 /\ InitTee({"chapter-7"}) /\ InitPad /\ InitCaps(0, {ANY})

Spec4 == Init4Spec /\ [][Next4]_vars

\* chapter 4 on a bus that also carries messages of kinds handle_message
\* has no arm for, with playback moving on at full pace between two polls
Next4Msgs ==
    \/ \E ok \in BOOLEAN : Ctl4SetStatePlaying(ok)
    \/ Ctl4Pop
    \/ Ctl4Poll(MaxAdvance)
    \/ Ctl4SetStateNull
    \/ \E e \in Elems : ElementUp(e)
    \/ PipelineUp
    \/ \E e \in Elems : ElementError(e)
    \/ PostEos
    \/ PostOther("duration-changed", Pipeline)
    \/ \E kind \in OtherKinds : PostOther(kind, Pipeline)

Spec4Msgs == Init4Spec /\ [][Next4Msgs]_vars

\* chapter 4 with a controller thread that keeps taking loop turns and an
\* engine that completes the state changes it has begun, on media that plays
\* to its end without errors
Next4Fair ==
    \/ \E ok \in BOOLEAN : Ctl4SetStatePlaying(ok)
    \/ Ctl4Pop
    \/ \E adv \in 0..MaxAdvance : Ctl4Poll(adv)
    \/ Ctl4SetStateNull
    \/ \E e \in Elems : ElementUp(e)
    \/ PipelineUp
    \/ PostEos

Spec4Fair ==
    /\ Init4Spec /\ [][Next4Fair]_vars
    /\ WF_vars(Ctl4Pop)
    /\ WF_vars(\E adv \in 0..MaxAdvance : Ctl4Poll(adv))
    /\ WF_vars(Ctl4SetStateNull)
    /\ WF_vars(PipelineUp)
    /\ WF_vars(\E e \in Elems : ElementUp(e))

\* the tee, as wired by chapters 7 and 8 and with 0, 1, 2 and 8 branches
InitTeeSpec == Init8 /\ InitCtl({7}) /\ Init4 /\ InitTee(TeeCfgs) /\ InitPad /\ InitCaps(0, {ANY})

SpecTee == InitTeeSpec /\ [][NextTee]_vars

\* chapter 6 on each of the sink pad templates
Init6 ==
    Init8 /\ InitCtl({6}) /\ Init4 /\ InitTee({"chapter-7"}) /\ InitPad
    /\ InitCaps(0, SinkTemplates)

Spec6 == Init6 /\ [][NextBus]_vars

\* intersect on every pair of operands
InitCapsSpec ==
    Init8 /\ InitCtl({6}) /\ Init4 /\ InitTee({"chapter-7"}) /\ InitPad /\ InitCaps(MaxStructs, {ANY})

SpecCaps == InitCapsSpec /\ [][NextCaps]_vars

\* any of the six programs
InitAll ==
    Init8 /\ InitCtl({1, 3, 4, 6, 7, 8}) /\ Init4 /\ InitTee({"chapter-7"}) /\ InitPad /\ InitCaps(0, {ANY})

NextAll ==
    \/ chapter \in {1, 3, 6, 7} /\ NextBus
    \/ chapter = 4 /\ Next4Fair
    \/ chapter = 8 /\ Next8

SpecAll == InitAll /\ [][NextAll]_vars

\* chapter 3: pads appearing on uridecodebin
InitPadSpec == Init8 /\ InitCtl({3}) /\ Init4 /\ InitTee({"chapter-7"}) /\ InitPad /\ InitCaps(0, {ANY})

SpecPad == InitPadSpec /\ [][NextPad]_vars

(***************************************************************************)
(* Chapter 8: properties.                                                  *)
(***************************************************************************)
\* C1: at most one production task (idle source registered by need_data) is
\* scheduled at any time.
C1_AtMostOneTask == Cardinality(idle) <= 1

\* C2: after enough_data was delivered, no buffer is built until the next
\* need_data arrives.
C2_NoBufferAfterEnough ==
    [][(num_samples' # num_samples \/ nbuilt' # nbuilt) => ~stopped]_vars

\* C3: a need_data callback that finds source_id set registers no idle source
\* and leaves source_id, num_samples and the accumulators unchanged.
C3_NeedDataNoOp ==
    [][(pcStream = "need" /\ pcStream' # "need" /\ source_id # None)
         => UNCHANGED <<source_id, num_samples, wave, idle, nextId>>]_vars

C3_Witness ==
    /\ lastNeed = "noop"
    /\ pcStream = "wait"
    /\ source_id # None
    /\ nbuilt > 0

\* pts = floor(n * 10^9 / SAMPLE_RATE), stated by the remainder of the division:
\* 0 <= n * 10^9 - pts * SAMPLE_RATE < SAMPLE_RATE, with both sides divided by
\* 100 and the nanoseconds split at 10^5 so that every product stays small
IsFloorOfSamples(n, pts) ==
    LET r  == n % SAMPLE_RATE
        d  == SAMPLE_RATE \div 100
        nh == pts[2] \div 100000
        nl == pts[2] % 100000
        A  == r * 100 - nh * d
    IN  /\ pts[1] * SAMPLE_RATE + r = n
        /\ pts[2] \in 0..(SECOND - 1)
        /\ A \in 0..d
        /\ (A * 100000 - nl * d) \in 0..(d - 1)

\* C4: the k-th buffer built (k from 0) carries
\* pts = floor(512 * k * 10^9 / 44100), computed from the sample counter.
C4_PtsExact ==
    \A b \in buf : IsFloorOfSamples(512 * (nbuilt - 1), b.pts)

\* the 1000th buffer: 999 * 11609977 ns and the 323 ns that summing the
\* durations would have lost
C4_Witness ==
    /\ nbuilt = 1000
    /\ buf = Some([pts |-> <<11, 598367346>>, duration |-> <<0, 11609977>>])

\* C5: pts is non-decreasing in push order, every buffer lasts 11,609,977 ns,
\* and num_samples grows by exactly 512 per buffer built and never decreases.
C5_Timestamps ==
    [][/\ num_samples' >= num_samples
       /\ (num_samples' # num_samples \/ nbuilt' # nbuilt)
            => /\ nbuilt' = nbuilt + 1
               /\ num_samples' = num_samples + 512
               /\ \A b \in buf' : b.duration = <<0, 11609977>>
       /\ npushed' # npushed
            => \A b \in buf : /\ lastPts' = {b.pts}
                              /\ \A l \in lastPts : TimeLeq(l, b.pts)]_vars

C5_Witness ==
    /\ npushed >= 3
    /\ lastPts = {<<0, 23219954>>}

(***************************************************************************)
(* Chapters 1, 3, 6, 7: properties.                                        *)
(***************************************************************************)
IsPrefix(a, b) == Len(a) <= Len(b) /\ a = SubSeq(b, 1, Len(a))

UpChain == << <<"Null", "Ready">>, <<"Ready", "Paused">>, <<"Paused", "Playing">> >>

\* the state changes the pipeline itself reports in a log, as <<old, new>>
PipelineChanges(log) ==
    LET own == SelectSeq(log, LAMBDA m : m.kind = "state-changed" /\ m.src = Pipeline)
    IN  [i \in 1..Len(own) |-> <<own[i].old, own[i].new>>]

\* C6: on the way from Null to Playing the pipeline posts Null->Ready,
\* Ready->Paused, Paused->Playing in that order, all of them before it reports
\* Playing, and the loops of chapters 3 and 6 print them in that order.
C6_StateChangesInOrder ==
    /\ IsPrefix(PipelineChanges(postedLog), UpChain)
    /\ gstate = "Playing" => PipelineChanges(postedLog) = UpChain
    /\ chapter \in {3, 6} => /\ observed = PipelineChanges(poppedLog)
                             /\ IsPrefix(observed, UpChain)

C6_Witness ==
    /\ chapter = 3
    /\ gstate = "Playing"
    /\ observed = UpChain
    /\ Len(poppedLog) > Len(observed)

\* C7: the loop is left exactly on the first Error or EOS message, nothing is
\* taken off the bus after it, set_state(Null) follows, and set_state(Null) is
\* not executed before such a message.
C7_NullAfterTerminal ==
    LET terminal(i) == poppedLog[i].kind \in {"error", "eos"}
        n == Len(poppedLog)
    IN  /\ pcCtl \in {"start", "panic"} => n = 0
        /\ pcCtl = "loop" => \A i \in 1..n : ~terminal(i)
        /\ pcCtl \in {"after", "done"}
             => /\ n > 0
                /\ terminal(n)
                /\ \A i \in 1..(n - 1) : ~terminal(i)
        /\ pcCtl = "after" => ENABLED CtlSetStateNull
        /\ pcCtl # "done" => target # "Null" \/ pcCtl = "start"

C7_Witness ==
    /\ chapter = 7
    /\ pcCtl = "done"
    /\ gstate = "Null"
    /\ Len(poppedLog) > 1
    /\ poppedLog[Len(poppedLog)].kind = "error"
    /\ bus # <<>>

BySource(log, src) == SelectSeq(log, LAMBDA m : m.src = src)

Occurrences(log, msg) == Cardinality({i \in 1..Len(log) : log[i] = msg})

\* C8: the messages of one source are taken off the bus in the order they were
\* posted, whatever the interleaving with other sources, and each posted
\* message is delivered once or still pending once.
C8_BusOrder ==
    /\ \A src \in Elems \cup {Pipeline} :
          IsPrefix(BySource(poppedLog, src), BySource(postedLog, src))
    /\ \A i \in 1..Len(postedLog) :
          Occurrences(poppedLog, postedLog[i]) + Occurrences(bus, postedLog[i]) = 1

C8_Witness ==
    /\ chapter = 3
    /\ \E i, j, k \in 1..Len(poppedLog) :
          /\ i < j /\ j < k
          /\ poppedLog[i].src = "sink"
          /\ poppedLog[j].src = "source"
          /\ poppedLog[k].src = "sink"
    /\ bus # <<>>

(***************************************************************************)
(* Claims about chapter 4.                                                 *)
(***************************************************************************)
Abs(x) == IF x < 0 THEN -x ELSE x

\* C9 (as amended): a seek before any successful position query is refused
\* with SeekUnsupported; chapter 4 seeks only after a successful position
\* query that returned more than 10 s, the seek to 30 s then succeeds, and the
\* next position query, less the playback since the seek, is within one
\* key-unit interval of the 30 s target (the seek is FLUSH | KEY_UNIT).
C9_SeekWithinKeyUnit ==
    /\ \A st \in Range(StateOrder), can \in BOOLEAN :
          SeekResult(st, FALSE, can) = "SeekUnsupported"
    /\ \A h \in seekHist :
          /\ h.known
          /\ h.queried > SeekThreshold
          /\ h.result = "Ok"
          /\ \A ku \in keyUnit :
                /\ Abs(h.landed - SeekTarget) <= ku
                /\ \A a \in afterSeek :
                      Abs((a.q - a.progress) - SeekTarget) <= ku

C9_Witness ==
    \E h \in seekHist, a \in afterSeek :
        /\ h.result = "Ok"
        /\ h.queried = SeekThreshold + 1
        /\ keyUnit = Some(4)
        /\ a.q - a.progress = 28

\* C9 as the specification states it: the position query that follows the
\* seek is within one buffer duration of the 30 s target.
C9_WithinOneBuffer ==
    \A h \in seekHist, a \in afterSeek :
        h.result = "Ok" => Abs((a.q - a.progress) - SeekTarget) <= 1

(***************************************************************************)
(* Claims about the tee.                                                   *)
(***************************************************************************)
UpTo(n) == [i \in 1..n |-> i]

\* C10: once the pipeline plays, each of the N branches the program wired
\* (N = 2 in chapter 7, N = 3 in chapter 8, and N in {0, 1, 2, 8}) is linked
\* to exactly one request pad of the tee, and its queue has received every
\* buffer the tee's sink pad received exactly once and in order; only the
\* buffer being forwarded may still be missing on a branch.
C10_TeeExactlyOnce ==
    teeState = "Playing" =>
        /\ Len(teeLink) = Len(Branches(teeCfg))
        /\ \A i \in 1..Len(Branches(teeCfg)) :
              LET q == Branches(teeCfg)[i]
                  pads == {k \in DOMAIN teeLink : teeLink[k] = q}
              IN  /\ Cardinality(pads) = 1
                  /\ \A k \in pads :
                        recv[q] = UpTo(IF k \in teePending THEN teeIn - 1 ELSE teeIn)

C10_Witness ==
    /\ teeCfg = "chapter-8"
    /\ teeIn >= 2
    /\ teePending = {}
    /\ \A q \in Range(Branches8) : recv[q] = UpTo(teeIn)

(***************************************************************************)
(* Claims about chapter 3.                                                 *)
(***************************************************************************)
\* no structure of a shares its name and a field value with one of b
Disjoint(a, b) ==
    \A i \in DOMAIN a, j \in DOMAIN b :
        a[i].name # b[j].name \/ a[i].vals \cap b[j].vals = {}

\* C11: a link attempted between a new pad and convert's unlinked sink pad
\* whose capabilities have an empty intersection fails with LinkIncompatible
\* and leaves both pads unlinked, so that a pad with compatible capabilities
\* can still be linked afterwards.
C11_FailedLinkLeavesUnlinked ==
    [][Len(attempts') = Len(attempts) + 1 =>
          LET a == attempts'[Len(attempts')]
          IN  (Disjoint(padCaps[a.pad], ConvertSinkCaps) /\ ~a.linked) =>
                 /\ a.result = "LinkIncompatible"
                 /\ sinkPeers' = {}
                 /\ \A caps \in NewPadCaps :
                       ~Disjoint(caps, ConvertSinkCaps) =>
                          PadLink(caps, ConvertSinkCaps, FALSE, sinkPeers' # {}) = "Ok"]_vars

C11_Witness ==
    \E i, j \in DOMAIN attempts :
        /\ i < j
        /\ attempts[i].result = "LinkIncompatible"
        /\ attempts[j].result = "Ok"
        /\ sinkPeers = {attempts[j].pad}

\* C12: convert's sink pad has at most one peer and is linked at most once,
\* and the handler of a pad-added notification that arrives when the sink
\* pad is linked makes no link attempt.
C12_LinkedAtMostOnce ==
    /\ Cardinality(sinkPeers) <= 1
    /\ Cardinality({i \in DOMAIN attempts : attempts[i].result = "Ok"}) <= 1
    /\ \A p \in DOMAIN padCaps :
          sawLinked[p] =>
             /\ padStage[p] = "done"
             /\ \A i \in DOMAIN attempts : attempts[i].pad # p

C12_Witness ==
    /\ Cardinality(sinkPeers) = 1
    /\ \E p, q \in DOMAIN padCaps :
          /\ p # q
          /\ p \in sinkPeers
          /\ sawLinked[q]
          /\ ~Disjoint(padCaps[q], ConvertSinkCaps)

(***************************************************************************)
(* Claims about chapter 8: the appsink, shutdown, weak references.         *)
(***************************************************************************)
InNewSample == pcSink \in {"notify", "lock", "pull"}

\* C13: every new_sample notification stands for exactly one sample the
\* appsink holds, and the handler pulls it exactly once: a pull never finds
\* the appsink without a sample, no notification returns without its pull,
\* and between two notifications no sample is left in the appsink.
C13_OnePullPerSample ==
    /\ pullFail = 0
    /\ skipped = 0
    /\ sinkQ = (IF InNewSample THEN 1 ELSE 0)
    /\ notified = pulls + (IF InNewSample THEN 1 ELSE 0)

C13_Witness ==
    /\ pulls >= 2
    /\ notified = pulls
    /\ pcSink = "idle"
    /\ sinkQ = 0

\* C14 as the specification states it: when set_state(Null) begins, every
\* production task still attached to the main context has observed
\* enough_data (it is no longer the one source_id names).
C14_TasksStoppedBeforeNull ==
    pcMain \in {"null", "done"} => \A t \in idle : t \notin source_id

(***************************************************************************)
(* Further claims about chapter 4.                                         *)
(***************************************************************************)
PollReady ==
    /\ chapter = 4 /\ pcCtl = "loop" /\ ~terminate
    /\ bus = <<>> /\ playing /\ QuerySupported(gstate)

\* C15: a cached duration changes only when a duration-changed message is
\* handled, which resets it to None; no poll turn replaces it.  With no
\* duration cached, the next poll turn in the playing state asks for it, and
\* takes the answer.
C15_DurationCached ==
    [][/\ (duration # None /\ duration' # duration) =>
              /\ bus # <<>>
              /\ Head(bus).kind = "duration-changed"
              /\ bus' = Tail(bus)
              /\ duration' = None
       /\ (PollReady /\ duration = None) =>
              ENABLED (Ctl4Poll(0) /\ duration' = Some(MaxPos))]_vars

C15_Witness ==
    /\ duration = Some(MaxPos)
    /\ \E i \in DOMAIN poppedLog : poppedLog[i].kind = "duration-changed"
    /\ PollReady
    /\ posKnown

\* C16: once `data` has been dropped, a callback or production task that
\* runs finds the weak reference gone and changes nothing: no idle source is
\* registered, no buffer is built or pushed, no sample is pulled, and the
\* fields of CustomData and its mutex are left as they were (an idle task can
\* only go away).
C16_NoOpAfterDrop ==
    [][~dataAlive =>
          /\ UNCHANGED <<source_id, num_samples, wave, mutex, nextId, buf,
                         nbuilt, npushed, pulls, pullFail, sinkQ>>
          /\ idle' \subseteq idle
          /\ pcStream' # "need"
          /\ pcSink' \notin {"lock", "pull"}]_vars

C16_Witness ==
    /\ ~dataAlive
    /\ pcMain = "aborted"
    /\ pcStream = "wait"
    /\ lastNeed = "none"
    /\ source_id = None

(***************************************************************************)
(* Further claims about the controllers and the bus.                       *)
(***************************************************************************)
\* C17: when set_state(Playing) fails in chapter 6 the controller does not
\* abort: it enters the loop, the error message the failure put on the bus is
\* delivered, the loop ends on it and the pipeline is set to Null.
C17_FailureSurfacesOnBus ==
    /\ [](chapter = 6 => pcCtl # "panic")
    /\ (chapter = 6 /\ failed) ~>
          (/\ pcCtl = "done"
           /\ gstate = "Null"
           /\ poppedLog # <<>>
           /\ poppedLog[Len(poppedLog)].kind = "error")

C17_Witness ==
    /\ chapter = 6
    /\ failed
    /\ pcCtl = "done"
    /\ gstate = "Null"
    /\ poppedLog[Len(poppedLog)].kind = "error"

\* C18: the chapter 4 loop never blocks for good.  Once the controller has
\* seen the pipeline reach Playing, it gets to the position query unless an
\* error or end-of-stream ends the loop first, and a loop that was told to
\* terminate reaches set_state(Null).
C18_LoopKeepsTurning ==
    /\ (pcCtl = "loop" /\ playing) ~> (posKnown \/ terminate)
    /\ terminate ~> (pcCtl = "done")

C18_Witness ==
    /\ chapter = 4
    /\ pcCtl = "loop"
    /\ playing
    /\ posKnown
    /\ ~terminate
    /\ bus = <<>>
    /\ position > 0

\* C19: each program uses one delivery mechanism on its bus: chapters 1, 3,
\* 6 and 7 the blocking iterator, chapter 4 the timed pop, chapter 8 the
\* signal watch with its callback; no DualConsumptionError arises.
C19_OneDeliveryMechanism ==
    /\ ~DualConsumptionError(mech)
    /\ chapter \in {1, 3, 6, 7} => mech \subseteq {"iter_timed"}
    /\ chapter = 4 => mech \subseteq {"timed_pop"}
    /\ chapter = 8 => mech \subseteq {"signal_watch"}

C19_Witness ==
    /\ chapter = 8
    /\ mech = {"signal_watch"}
    /\ pcMain = "done"
    /\ posted8 > 0

\* C20: the handler chapter 8 connects with the detail "error" runs once for
\* each error message the signal watch takes off the bus and for no message
\* of another kind, so only its Error arm is ever run.
C20_HandlerOnlyForErrors ==
    /\ Len(handled8) = Len(SelectSeq(taken8, LAMBDA k : k = "error"))
    /\ \A i \in DOMAIN handled8 : handled8[i] = "Error"
    /\ pcMain \in {"quit", "null", "done"} <=> handled8 # <<>>

C20_Witness ==
    /\ handled8 = <<"Error">>
    /\ taken8 = <<"state-changed", "error">>
    /\ pcMain = "quit"

(***************************************************************************)
(* Claims about teardown and the wiring of the tee.                        *)
(***************************************************************************)
\* C21: after set_state(Null) at the end of chapters 7 and 8 no request pad
\* of the tee remains and no pad holds a negotiated capability, and the only
\* step in which request pads, links or negotiated capabilities go away is
\* that transition to Null: the controller has no release call of its own.
C21_NullReleasesPads ==
    /\ [](pcTee = "done" => teePads = <<>> /\ teeLink = <<>> /\ teeNeg = <<>>)
    /\ [][(Len(teePads') < Len(teePads) \/ Len(teeNeg') < Len(teeNeg)
              \/ \E k \in DOMAIN teeNeg \cap DOMAIN teeNeg' :
                     teeNeg[k] # None /\ teeNeg'[k] = None)
            => teeState = "Playing" /\ teeState' = "Null"]_vars

\* chapter 8's three branches have carried buffers on negotiated links, and
\* the pipeline is back in Null
C21_Witness ==
    /\ teeCfg = "chapter-8"
    /\ pcTee = "done"
    /\ teeState = "Null"
    /\ \A q \in Range(Branches8) : Len(recv[q]) >= 1

\* C24: every request_pad_simple and every branch link of chapters 7 and 8
\* happens while the pipeline is in Null and before any buffer has reached
\* the tee, none happens after set_state(Playing), and the tee never flags
\* ConcurrentPadMutation.
C24_BranchesWiredInNull ==
    /\ [](teeErr = {})
    /\ [][(Len(teePads') > Len(teePads) \/ Len(teeLink') > Len(teeLink))
            => /\ teeState = "Null" /\ teeState' = "Null"
               /\ pcTee # "done"
               /\ teeIn = 0 /\ teePending = {}]_vars

\* chapter 7's two branches are wired and a buffer is mid-forward: on one
\* branch already, on the other not yet
C24_Witness ==
    /\ teeCfg = "chapter-7"
    /\ teeState = "Playing"
    /\ Len(teePads) = 2 /\ Len(teeLink) = 2
    /\ Cardinality(teePending) = 1

(***************************************************************************)
(* Claims about capabilities.                                              *)
(***************************************************************************)
\* two capabilities are the same when both are ANY or both list the same
\* alternative structures
CapsEqual(x, y) ==
    IF IsAny(x) \/ IsAny(y) THEN IsAny(x) /\ IsAny(y)
    ELSE Range(x) = Range(y)

\* C25: for every pair of capabilities a, b: intersect(a, b) and
\* intersect(b, a) are the same capability, intersect(a, ANY) is a, and
\* intersect(a, EMPTY) is EMPTY, whichever side the operand is on.
C25_IntersectLaws ==
    \A o \in capOut :
        /\ CapsEqual(o.ab, o.ba)
        /\ o.aAny = capA /\ o.anyA = capA
        /\ IsEmpty(o.aEmpty) /\ IsEmpty(o.emptyA)

\* an intersection of two capabilities of two structures each, of which
\* one pair of structures overlaps in part and another not at all
C25_Witness ==
    /\ capOut # None
    /\ ~IsAny(capA) /\ ~IsAny(capB)
    /\ Len(capA) = 2 /\ Len(capB) = 1
    /\ \A o \in capOut : Len(o.ab) = 1 /\ o.ab[1].vals # capA[1].vals
                         /\ o.ab[1].vals # capB[1].vals

(***************************************************************************)
(* Claims about the sink pad of chapter 6.                                 *)
(***************************************************************************)
\* C22: every print_pad_capabilities call of chapter 6 shows the negotiated
\* capability, which is fixed, when the sink pad has one, and the pad's
\* unresolved template otherwise; the first call, in the Null state before
\* set_state(Playing), finds nothing negotiated and shows the template.
C22_CurrentCapability ==
    /\ \A i \in DOMAIN printed :
          LET e == printed[i]
          IN  /\ \A c \in e.neg : IsFixed(c) /\ e.shown = PrintCaps(c)
              /\ e.neg = None => e.shown = PrintCaps(e.template)
    /\ printed # <<>> =>
          /\ printed[1].state = "Null"
          /\ printed[1].neg = None

\* the program has shown a ranged template in Null and, later, the
\* capability negotiated from it
C22_Witness ==
    /\ Len(printed) >= 2
    /\ ~printed[1].shown.any
    /\ \E s \in DOMAIN printed[1].shown.lines :
          Cardinality(printed[1].shown.lines[s].vals) > 1
    /\ \E i \in DOMAIN printed : printed[i].neg # None

AtLock == stage \in {"lock", "enough"} \/ pcSink = "lock"

\* C26: the mutex is held by the production task only while it fills the
\* buffer and by enough_data and need_data only for their bodies, never
\* across push_buffer; whoever holds it can always go on to release it, so
\* a thread at data.lock() is never blocked for good; and num_samples, the
\* waveform state and source_id change only in a step of the thread that
\* holds the mutex.
C26_MutexScope ==
    /\ [](/\ (mutex = "main" <=> stage \in {"fill", "enough_body"})
          /\ (mutex = "stream" <=> pcStream = "need")
          /\ mutex = "main" => ENABLED (IdleFill \/ EnoughDataBody)
          /\ mutex = "stream" => ENABLED NeedDataBody
          /\ (AtLock /\ mutex = "free" /\ dataAlive) =>
                ENABLED (IdleLock \/ EnoughDataLock \/ NewSampleLock))
    /\ [][(num_samples' # num_samples \/ wave' # wave) =>
              mutex = "main" /\ stage = "fill"]_vars
    /\ [][source_id' # source_id =>
              \/ mutex = "main" /\ stage = "enough_body"
              \/ mutex = "stream" /\ pcStream = "need"]_vars

\* push_buffer has called enough_data, which holds the mutex, while the
\* appsink's new_sample waits for it on its own thread
C26_Witness ==
    /\ stage = "enough_body"
    /\ mutex = "main"
    /\ pcSink = "lock"

\* C27: in chapter 8 source_id is Some exactly when a production task is
\* scheduled: when source_id is None no idle source is attached to the main
\* context, and when it is Some the source it names is still attached.
C27_SourceIdTracksTask ==
    /\ source_id = None => idle = {}
    /\ source_id # None => source_id \subseteq idle

\* the appsrc has called need_data on an empty queue, the callback has
\* scheduled a production task, and the streaming thread waits for a buffer
NeedDataPending ==
    /\ pcStream = "wait"
    /\ lastNeed = "registered"
    /\ queued = 0

\* main_loop.run() is not, or no longer, to be reached or running
MainLoopOver == pcMain \in {"quit", "null", "done", "panic", "aborted"}

PollTurn ==
    /\ chapter = 4
    /\ pcCtl = "loop"
    /\ ~terminate
    /\ TimedPopNone(bus)
    /\ playing

\* C29: in chapter 4, at every poll turn in which playing is set the
\* pipeline is in the Playing state, so the position query and the seek are
\* issued in Playing and the program aborts only when set_state(Playing)
\* itself has failed.
C29_PlayingFlagInSync ==
    /\ PollTurn => gstate = "Playing"
    /\ pcCtl = "panic" => failed

\* playing is set again after the flushing seek took the pipeline out of
\* Playing and back, and the position has been queried since
C29_Witness ==
    /\ PollTurn
    /\ seekHist # None
    /\ afterSeek # None
    /\ \E m \in Range(poppedLog) :
          m.kind = "state-changed" /\ m.src = Pipeline /\ m.old = "Playing"

\* C30: a seek is issued only in a poll turn in which playing and
\* seek_enabled hold, seek_done does not and the position just queried is
\* past 10 s; seek_done, once set, stays set; and no run has a second seek,
\* although the pipeline leaves and re-enters Playing after the first.
C30_SeekOnce ==
    /\ [][seekHist' # seekHist =>
             /\ PollTurn
             /\ seek_enabled /\ ~seek_done
             /\ \A h \in seekHist' : h.queried > SeekThreshold
             /\ seekHist = None
             /\ seek_done']_vars
    /\ [][seek_done => seek_done']_vars

\* after the seek the pipeline is back in Playing and polled past 10 s, with
\* seek_enabled still set
C30_Witness ==
    /\ PollTurn
    /\ seek_done /\ seek_enabled
    /\ gstate = "Playing"
    /\ \E a \in afterSeek : a.q > SeekThreshold

(***************************************************************************)
(* C31                                                                     *)
(***************************************************************************)
\* the fields of CustomData that handle_message can reach
CustomData == <<playing, terminate, seek_enabled, seek_done, duration>>

\* a step in which the chapter-4 loop hands a popped message to handle_message
HandlesMessage == chapter = 4 /\ poppedLog' # poppedLog

\* C31: in chapter 4, handle_message changes playing and seek_enabled only
\* for a state-changed message of playbin itself; a state-changed message of
\* another element, and a message of a kind other than error, EOS,
\* duration-changed and state-changed, leave every field of CustomData
\* unchanged; terminate becomes true only by handling an error or EOS
\* message, and is never reset.
C31_HandleMessageFrame ==
    /\ [][HandlesMessage =>
             LET msg == Head(bus)
             IN  /\ (playing' # playing \/ seek_enabled' # seek_enabled)
                       => (msg.kind = "state-changed" /\ msg.src = Pipeline)
                 /\ (msg.kind = "state-changed" /\ msg.src # Pipeline)
                       => UNCHANGED CustomData
                 /\ msg.kind \notin {"error", "eos", "duration-changed",
                                     "state-changed"}
                       => UNCHANGED CustomData
                 /\ terminate' => msg.kind \in {"error", "eos"}]_vars
    /\ [][(chapter = 4 /\ terminate' /\ ~terminate) => HandlesMessage]_vars
    /\ [][(chapter = 4 /\ terminate) => terminate']_vars

\* handle_message has seen an element's state-changed message to Playing
\* before playbin's own, and after that a message of another kind while
\* playing and seek_enabled were set; both are still set
C31_Witness ==
    /\ chapter = 4
    /\ playing /\ seek_enabled /\ ~terminate
    /\ \E i, j, k \in DOMAIN poppedLog :
          /\ j < i /\ i < k
          /\ poppedLog[i].kind = "state-changed" /\ poppedLog[i].src = Pipeline
          /\ poppedLog[i].new = "Playing"
          /\ poppedLog[j].kind = "state-changed" /\ poppedLog[j].src # Pipeline
          /\ poppedLog[j].new = "Playing"
          /\ poppedLog[k].kind \in OtherKinds

(***************************************************************************)
(* C32                                                                     *)
(***************************************************************************)
\* the handler of pad p found convert's sink unlinked and the first structure
\* of the pad's capability has a name starting with "audio/x-raw"
Linkable(p) == ~sawLinked[p] /\ StartsWith(padCaps[p][1].name, "audio/x-raw")

Attempted(p) == \E i \in DOMAIN attempts : attempts[i].pad = p

\* C32: in chapter 3 the pad-added handler attempts to link a new pad to
\* convert's sink exactly when it found that sink unlinked and the first
\* structure of the pad's capability has a name starting with "audio/x-raw";
\* a link is made only by such an attempt and only on an unlinked sink; the
\* handler of every other pad attempts no link and leaves the link state of
\* all pads unchanged.
C32_PadAddedFrame ==
    /\ [](\A p \in DOMAIN padStage :
             /\ Attempted(p) => Linkable(p)
             /\ padStage[p] = "done" => (Attempted(p) <=> Linkable(p)))
    /\ [][sinkPeers' # sinkPeers =>
             /\ sinkPeers = {}
             /\ Len(attempts') = Len(attempts) + 1
             /\ LET a == attempts'[Len(attempts')]
                IN  /\ sinkPeers' = {a.pad}
                    /\ a.result = "Ok"
                    /\ Linkable(a.pad)]_vars
    /\ [][\A p \in DOMAIN padStage' :
             (/\ p \in DOMAIN padStage => padStage[p] # "done"
              /\ padStage'[p] = "done"
              /\ ~(Linkable(p))')
                => UNCHANGED <<sinkPeers, attempts>>]_vars

\* one pad was linked, the handler of a pad whose media type only begins
\* with "audio/x-raw" attempted a link, and the handler of a third pad has
\* returned without an attempt
C32_Witness ==
    \E p, q, r \in DOMAIN padStage :
        /\ \A x \in {p, q, r} : padStage[x] = "done"
        /\ sinkPeers = {p}
        /\ padCaps[q][1].name # "audio/x-raw" /\ Attempted(q)
        /\ ~Attempted(r)

(***************************************************************************)
(* C33                                                                     *)
(***************************************************************************)
\* main is past main_loop.run()
AfterRun == pcMain \in {"quit", "null", "done"}

\* C33: in chapter 8 main_loop.run() ends only in the step that dispatches
\* an error message to the bus handler; the dispatch of an end-of-stream or
\* any other message leaves the loop running; so set_state(Null) and
\* remove_signal_watch are reached only after an error message was
\* dispatched, set_state(Null) first and remove_signal_watch after it.
C33_QuitOnlyOnError ==
    /\ [][(pcMain = "loop" /\ pcMain' # "loop") =>
             /\ bus8 # <<>> /\ Head(bus8) = "error"
             /\ taken8' = Append(taken8, "error")
             /\ pcMain' = "quit"]_vars
    /\ [][(taken8' # taken8 /\ Head(bus8) # "error") => pcMain' = "loop"]_vars
    /\ [](AfterRun => (taken8 # <<>> /\ taken8[Len(taken8)] = "error"))
    /\ [][(pcMain' = "null" /\ pcMain # "null") => pcMain = "quit"]_vars
    /\ [][(pcMain' = "done" /\ pcMain # "done") => pcMain = "null"]_vars
    /\ [][AfterRun => AfterRun']_vars

\* the loop dispatched an end-of-stream message and went on, an error
\* message ended it, and main has run to its end
C33_Witness ==
    /\ pcMain = "done"
    /\ taken8 = <<"eos", "error">>

====
